---------------------------- MODULE Spec2Model ----------------------------
(***************************************************************************)
(* Model of the route optimization engine of src/route_optimizer.py:       *)
(* GeocodingCache, RoutingCache and RouteOptimizer (address resolution,    *)
(* rate-limited road distance with great-circle fallback, nearest          *)
(* neighbour, 2-opt, optimize_route, optimize_multiple_routes).            *)
(*                                                                         *)
(* Units.  Distances are integers in metres (0.001 km), so the code's      *)
(* round(x, 2) on kilometres is rounding to a multiple of 10.  Clock       *)
(* values are integers in deciseconds (0.1 s).                             *)
(*                                                                         *)
(* Specifications.                                                         *)
(*   SpecOpt   the pure optimisation algorithms on a distance matrix       *)
(*   SpecRate  one optimizer instance issuing external routing requests    *)
(*   SpecDist  optimizer instances answering distance requests             *)
(*   SpecGeo   one optimizer instance resolving addresses                  *)
(*   SpecMulti optimize_multiple_routes over route groups                  *)
(*   SpecRoute optimize_route and optimize_multiple_routes on the stops,   *)
(*             through geocoding, the matrix and the caches                *)
(*   SpecResolve one address resolution from every state of the two        *)
(*             address caches                                              *)
(*   SpecInstances distance requests of optimizer instances created one    *)
(*             after another, the external requests logged across them     *)
(*   SpecTwoOpt two_opt pass by pass, run to its return                    *)
(*   SpecShared optimizer instances of concurrent requests resolving       *)
(*             addresses through one persistent address cache              *)
(*                                                                         *)
(* embedded_route_distance is the route total of the embedded variant,     *)
(* optimize_route_2opt of src/api/index.py.                                *)
(***************************************************************************)
EXTENDS Integers, Sequences, FiniteSets, TLC

VARIABLES
    \* ---- SpecOpt: input and result of optimize_route
    distance_matrix,        \* n x n matrix, [0..n-1 -> [0..n-1 -> Nat]]
    opt_result,             \* result of the last optimize_route call, or None
    \* ---- SpecDist: RouteOptimizer fields used by calculate_distance
    ors_client,             \* TRUE iff self.ors_client is not None
    last_api_call,          \* self.last_api_call
    api_calls_this_minute,  \* self.api_calls_this_minute
    minute_start,           \* self.minute_start
    routing_cache,          \* RoutingCache table: route key -> entry or None
    now,                    \* time.time()
    latency,                \* response time of the routing provider
    call_log,               \* history: the external routing requests issued
    dist_out,               \* observation of the last distance request
    \* ---- SpecGeo: RouteOptimizer fields used by geocode_address
    session_cache,          \* self.session_cache: full address -> coordinate
    geocoding_cache,        \* GeocodingCache table: address hash -> entry
    geo_out,                \* observation of the last operation
    \* ---- SpecMulti: optimize_multiple_routes
    batch,                  \* the route groups of the DataFrame and the algorithm
    batch_out,              \* outcome of optimize_multiple_routes, or None
    \* ---- SpecShared: optimizer instances on one GeocodingCache
    resolvers               \* the geocoder's data and each instance's position

optVars   == <<distance_matrix, opt_result>>
distVars  == <<ors_client, last_api_call, api_calls_this_minute, minute_start,
               routing_cache, now, latency, call_log, dist_out>>
geoVars   == <<session_cache, geocoding_cache, geo_out>>
multiVars == <<batch, batch_out, resolvers>>
vars      == <<optVars, distVars, geoVars, multiVars>>

None == "None"

Abs(x) == IF x < 0 THEN -x ELSE x

Min(S) == CHOOSE x \in S : \A y \in S : x <= y

(***************************************************************************)
(* round(x, 2) of a distance in km, on metres: the nearest multiple of 10, *)
(* a tie going to the even multiple (Python's round).                      *)
(***************************************************************************)
Round2(x) ==
    LET q == x \div 10
        r == x % 10
    IN  IF r < 5 THEN 10 * q
        ELSE IF r > 5 THEN 10 * (q + 1)
        ELSE IF q % 2 = 0 THEN 10 * q ELSE 10 * (q + 1)

-----------------------------------------------------------------------------
(***************************************************************************)
(* Routes.  A route is a sequence of stop indices 0..n-1; the code's       *)
(* 0-based position p is position p+1 of the sequence.                     *)
(***************************************************************************)
At(route, p) == route[p + 1]

Range0(n) == [p \in 1..n |-> p - 1]            \* list(range(n))

MatrixSize(m) == Cardinality(DOMAIN m)

\* calculate_route_distance: open-path sum of consecutive edges
RECURSIVE SumEdges(_, _, _)
SumEdges(route, m, p) ==
    IF p >= Len(route) - 1 THEN 0
    ELSE m[At(route, p)][At(route, p + 1)] + SumEdges(route, m, p + 1)

\* the length of the closed tour: the edge back to the first stop is added
calculate_route_distance_closed(route, m) ==
    IF Len(route) <= 1 THEN 0
    ELSE SumEdges(route, m, 0) + m[At(route, Len(route) - 1)][At(route, 0)]

calculate_route_distance(route, m) ==
    IF Len(route) <= 1 THEN 0 ELSE SumEdges(route, m, 0)

\* the route total of a variant that drops the edge back to the first stop
embedded_route_distance_open(route_order, distances) ==
    LET RECURSIVE total_distance(_)
        total_distance(i) ==
            IF i >= Len(route_order) - 1 THEN 0
            ELSE distances[At(route_order, i)][At(route_order, i + 1)]
                    + total_distance(i + 1)
    IN  total_distance(0)

\* api/index.py, calculate_route_distance inside optimize_route_2opt: for
\* every position i the edge from route_order[i] to
\* route_order[(i + 1) % len(route_order)] is added, the last one being the
\* edge from the last stop back to the first
embedded_route_distance(route_order, distances) ==
    LET RECURSIVE total_distance(_)
        total_distance(i) ==
            IF i >= Len(route_order) THEN 0
            ELSE distances[At(route_order, i)]
                          [At(route_order, (i + 1) % Len(route_order))]
                    + total_distance(i + 1)
    IN  total_distance(0)


\* the key read from the column of the current stop: the direction x -> current
NearestByColumn(unvisited, current, m) ==
    Min({x \in unvisited : \A y \in unvisited : m[x][current] <= m[y][current]})

\* min(unvisited, key=lambda x: distance_matrix[current][x]); the set of
\* small integers is iterated in ascending order, the first minimum wins
Nearest(unvisited, current, m) ==
    Min({x \in unvisited : \A y \in unvisited : m[current][x] <= m[current][y]})

RECURSIVE NNLoop(_, _, _, _)
NNLoop(route, unvisited, current, m) ==
    IF unvisited = {} THEN route
    ELSE LET nearest == Nearest(unvisited, current, m)
         IN  NNLoop(Append(route, nearest), unvisited \ {nearest}, nearest, m)

\* a tour that always starts at stop 0
nearest_neighbor_from_zero(m, start_index) ==
    LET n == MatrixSize(m)
    IN  IF n <= 1 THEN Range0(n)
        ELSE NNLoop(<<0>>, 1..(n - 1), 0, m)

nearest_neighbor(m, start_index) ==
    LET n == MatrixSize(m)
    IN  IF n <= 1 THEN Range0(n)
        ELSE NNLoop(<<start_index>>, (0..(n - 1)) \ {start_index}, start_index, m)

\* a reversal that takes the segment one position too far to the right
ReverseSegmentShifted(route, i, j) ==
    [q \in 1..Len(route) |->
        LET p == q - 1
        IN  IF i <= p /\ p < j THEN At(route, i + j - p) ELSE route[q]]

\* route[:i] + route[i:j][::-1] + route[j:]
ReverseSegment(route, i, j) ==
    [q \in 1..Len(route) |->
        LET p == q - 1
        IN  IF i <= p /\ p < j THEN At(route, i + j - 1 - p) ELSE route[q]]

\* a scan whose outer loop starts at the first stop
ScanPairsFromStart(n) ==
    {<<i, j>> \in (0..(n - 3)) \X (1..(n - 1)) : j >= i + 1 /\ j - i # 1}

\* the pairs the two loops of two_opt visit, adjacent pairs skipped
ScanPairs(n) ==
    {<<i, j>> \in (1..(n - 3)) \X (1..(n - 1)) : j >= i + 1 /\ j - i # 1}

\* a scan that runs on after an improvement and keeps the last one
ScanBeforeLast(a, b) == b[1] < a[1] \/ (b[1] = a[1] /\ b[2] < a[2])

ScanBefore(a, b) == a[1] < b[1] \/ (a[1] = b[1] /\ a[2] < b[2])

\* if new_distance < best_distance
AcceptsMoveWorse(new_distance, best_distance) == new_distance > best_distance

AcceptsMove(new_distance, best_distance) == new_distance < best_distance

Improving(route, m, best_distance) ==
    {ij \in ScanPairs(Len(route)) :
        AcceptsMove(calculate_route_distance(ReverseSegment(route, ij[1], ij[2]), m),
                    best_distance)}

MaxIterationsDefault == 1000

RECURSIVE TwoOptLoop(_, _, _, _, _)
TwoOptLoop(route, improved, iterations, m, max_iterations) ==
    LET best_distance == calculate_route_distance(route, m)
        cand == Improving(route, m, best_distance)
    IN  IF iterations >= max_iterations \/ cand = {}
        THEN [route |-> route, improved |-> improved, iterations |-> iterations]
        ELSE LET ij == CHOOSE a \in cand : \A b \in cand : a = b \/ ScanBefore(a, b)
             IN  TwoOptLoop(ReverseSegment(route, ij[1], ij[2]), TRUE,
                            iterations + 1, m, max_iterations)

two_opt(route, m, max_iterations) ==
    IF Len(route) <= 3
    THEN [route |-> route, improved |-> FALSE, iterations |-> 0]
    ELSE TwoOptLoop(route, FALSE, 0, m, max_iterations)

Algorithms == {"nearest_neighbor", "2_opt", "both"}

TrivialResult(n, algorithm) ==
    [raised |-> None,
     original_order |-> Range0(n), optimized_order |-> Range0(n),
     original_distance |-> 0, optimized_distance |-> 0, distance_saved |-> 0,
     algorithm_used |-> algorithm, stops_count |-> n]

AlgorithmUsed(algorithm) ==
    CASE algorithm = "nearest_neighbor" -> "Nearest Neighbor"
      [] algorithm = "2_opt" -> "2-Opt"
      [] algorithm = "both" -> "Nearest Neighbor + 2-Opt"
      [] OTHER -> None

OptimizedOrder(m, algorithm) ==
    CASE algorithm = "nearest_neighbor" -> nearest_neighbor(m, 0)
      [] algorithm = "2_opt" ->
            two_opt(Range0(MatrixSize(m)), m, MaxIterationsDefault).route
      [] algorithm = "both" ->
            two_opt(nearest_neighbor(m, 0), m, MaxIterationsDefault).route

\* optimize_route, given the matrix create_distance_matrix built for the stops
optimize_route(m, algorithm) ==
    LET n == MatrixSize(m)
    IN  IF n <= 1 THEN TrivialResult(n, algorithm)
        ELSE IF algorithm \notin Algorithms
        THEN [raised |-> "ValueError", stops_count |-> n]
        ELSE LET original_order == Range0(n)
                 original_distance == calculate_route_distance(original_order, m)
                 optimized_order == OptimizedOrder(m, algorithm)
                 optimized_distance == calculate_route_distance(optimized_order, m)
             IN  [raised |-> None,
                  original_order |-> original_order,
                  optimized_order |-> optimized_order,
                  original_distance |-> Round2(original_distance),
                  optimized_distance |-> Round2(optimized_distance),
                  distance_saved |-> Round2(original_distance - optimized_distance),
                  algorithm_used |-> AlgorithmUsed(algorithm),
                  stops_count |-> n]


-----------------------------------------------------------------------------
(***************************************************************************)
(* SpecOpt.  The stops lie on a line at positions 0..MaxCoord, GridStep    *)
(* metres apart; the matrix holds their pairwise distances.  With one_way  *)
(* the way back to a lower position is twice as long (an asymmetric road   *)
(* matrix).  The matrix is the input; each action is one optimize_route    *)
(* call on it.                                                             *)
(***************************************************************************)
MaxStops == 4
MaxCoord == 5
GridStep == 7

Positions == UNION {[0..(n - 1) -> 0..MaxCoord] : n \in 0..MaxStops}

LineMatrix(pos, one_way) ==
    [i \in DOMAIN pos |-> [j \in DOMAIN pos |->
        IF one_way /\ pos[i] > pos[j]
        THEN 2 * GridStep * (pos[i] - pos[j])
        ELSE GridStep * Abs(pos[i] - pos[j])]]

AlgorithmNames == Algorithms \cup {"fastest"}

\* the corners of a square in the order (0,0), (0,1), (1,1), (1,0): the
\* great-circle distance of two corners is one edge, or the diagonal
SquareEdge == 1000

SquareDiagonal == (SquareEdge * 1414) \div 1000

SquareDistance(a, b) ==
    IF a = b THEN 0 ELSE IF (a - b) % 2 = 0 THEN SquareDiagonal ELSE SquareEdge

\* the routes over the stops 0..n-1
Permutations0(n) ==
    {route \in [1..n -> 0..(n - 1)] : \A k \in 0..(n - 1) : \E q \in 1..n : route[q] = k}

\* the orders k, k+1, .., n-1, 0, .., k-1
Rotations(n) == {[q \in 1..n |-> (q - 1 + k) % n] : k \in 0..(n - 1)}

\* MaxShuffled stops at the positions 0..MaxShuffled-1 in any order
MaxShuffled == 5

ShuffledPositions ==
    {[i \in 0..(MaxShuffled - 1) |-> route[i + 1]] : route \in Permutations0(MaxShuffled)}

\* the matrix of the four corners given in the order visit
SquareMatrix(visit) ==
    [i \in 0..3 |-> [j \in 0..3 |-> SquareDistance(At(visit, i), At(visit, j))]]

SquareMatrices == {SquareMatrix(visit) : visit \in Permutations0(4)}

\* the input orders with a diagonal between two consecutive stops
CrossedMatrices ==
    {m \in SquareMatrices : \E i \in 0..2 : m[i][i + 1] = SquareDiagonal}

NoCall == [op |-> None, algorithm |-> None]

InitOther ==
    /\ ors_client = FALSE
    /\ last_api_call = 0
    /\ api_calls_this_minute = 0
    /\ minute_start = 0
    /\ routing_cache = <<>>
    /\ now = 0
    /\ latency = 0
    /\ call_log = {}
    /\ dist_out = NoCall
    /\ session_cache = <<>>
    /\ geocoding_cache = <<>>
    /\ geo_out = NoCall
    /\ batch = NoCall
    /\ batch_out = NoCall
    /\ resolvers = NoCall

InitOpt ==
    /\ \/ \E pos \in Positions, one_way \in BOOLEAN :
               distance_matrix = LineMatrix(pos, one_way)
       \/ \E pos \in ShuffledPositions, one_way \in BOOLEAN :
               distance_matrix = LineMatrix(pos, one_way)
       \/ distance_matrix \in SquareMatrices
    /\ opt_result = NoCall
    /\ InitOther

OptimizeRoute(algorithm) ==
    /\ opt_result = NoCall
    /\ opt_result' = [op |-> "optimize_route", algorithm |-> algorithm,
                      result |-> optimize_route(distance_matrix, algorithm)]
    /\ UNCHANGED <<distance_matrix, distVars, geoVars, multiVars>>

\* one nearest_neighbor(distance_matrix, start_index) call
NearestNeighbor(start_index) ==
    /\ opt_result = NoCall
    /\ start_index \in DOMAIN distance_matrix
    /\ opt_result' = [op |-> "nearest_neighbor", algorithm |-> None,
                      start_index |-> start_index,
                      route |-> nearest_neighbor(distance_matrix, start_index)]
    /\ UNCHANGED <<distance_matrix, distVars, geoVars, multiVars>>

\* one two_opt(route, distance_matrix) call on a route over all the stops
TwoOpt(route) ==
    /\ opt_result = NoCall
    /\ opt_result' = [op |-> "two_opt", algorithm |-> None, route |-> route,
                      result |-> two_opt(route, distance_matrix, MaxIterationsDefault)]
    /\ UNCHANGED <<distance_matrix, distVars, geoVars, multiVars>>

\* the three functions are pure: a behaviour is one call on the drawn matrix
NextOpt ==
    \/ \E algorithm \in AlgorithmNames : OptimizeRoute(algorithm)
    \/ \E start_index \in DOMAIN distance_matrix : NearestNeighbor(start_index)
    \/ \E route \in Rotations(MatrixSize(distance_matrix)) : TwoOpt(route)

SpecOpt == InitOpt /\ [][NextOpt]_vars

OptCalled(algorithm) ==
    /\ opt_result.op = "optimize_route"
    /\ opt_result.algorithm = algorithm
    /\ MatrixSize(distance_matrix) >= 2

C6_Original ==
    OptCalled("both") =>
        /\ opt_result.result.optimized_distance <=
              optimize_route(distance_matrix, "nearest_neighbor").optimized_distance
        /\ opt_result.result.optimized_distance <=
              optimize_route(distance_matrix, "2_opt").optimized_distance

\* C6 (amended): the optimized distance of 'both' is at most that of
\* 'nearest_neighbor' alone on the same input.
C6_BothAtMostNN ==
    OptCalled("both") =>
        opt_result.result.optimized_distance <=
            optimize_route(distance_matrix, "nearest_neighbor").optimized_distance

\* a 'both' call in which 2-opt improved on the nearest-neighbour route
C6_Witness ==
    /\ OptCalled("both")
    /\ opt_result.result.optimized_distance <
          optimize_route(distance_matrix, "nearest_neighbor").optimized_distance

\* an optimize_route call with an algorithm name that is none of the three
UnknownCalled ==
    /\ opt_result.op = "optimize_route"
    /\ opt_result.algorithm \notin Algorithms

\* C11 (as stated): optimize_route with an algorithm name other than
\* 'nearest_neighbor', '2_opt' and 'both' raises ValueError, for every stop
\* list, the empty and the single-stop list included.
C11_Original ==
    UnknownCalled => opt_result.result.raised = "ValueError"

IsPermutation0(route, n) ==
    /\ Len(route) = n
    /\ \A k \in 0..(n - 1) : Cardinality({q \in 1..n : route[q] = k}) = 1

\* C14: nearest_neighbor(matrix, start) returns a list of length n holding
\* each index 0..n-1 exactly once and beginning with start.
C14_NearestNeighborPermutation ==
    opt_result.op = "nearest_neighbor" =>
        /\ IsPermutation0(opt_result.route, MatrixSize(distance_matrix))
        /\ opt_result.route[1] = opt_result.start_index

\* a nearest_neighbor call from a start other than 0 whose route is not the
\* input order
C14_Witness ==
    /\ opt_result.op = "nearest_neighbor"
    /\ opt_result.start_index > 0
    /\ MatrixSize(distance_matrix) >= 3
    /\ \E q \in 2..Len(opt_result.route) : opt_result.route[q] > opt_result.route[1]
    /\ \E q \in 1..(Len(opt_result.route) - 1) :
          opt_result.route[q] > opt_result.route[q + 1] + 1

\* C15: for each of the three algorithms optimize_route reports original_order
\* as the identity 0..n-1 and optimized_order as a permutation of 0..n-1, and
\* two_opt returns a route with the elements of its input route.
C15_OrdersArePermutations ==
    /\ (opt_result.op = "optimize_route" /\ opt_result.algorithm \in Algorithms) =>
          /\ opt_result.result.original_order = Range0(MatrixSize(distance_matrix))
          /\ IsPermutation0(opt_result.result.optimized_order, MatrixSize(distance_matrix))
    /\ opt_result.op = "two_opt" =>
          IsPermutation0(opt_result.result.route, MatrixSize(distance_matrix))

\* a two_opt call that accepted more than one segment reversal
C15_Witness ==
    /\ opt_result.op = "two_opt"
    /\ opt_result.result.iterations >= 2
    /\ opt_result.result.route # opt_result.route

SquareCalled ==
    /\ OptCalled("both")
    /\ distance_matrix \in CrossedMatrices

\* C19 (as stated): for the four corners of a square given in a crossed order,
\* 'both' reports a total distance equal to the perimeter, 4 edges, which is
\* smaller than the total of the crossed order.
C19_Original ==
    SquareCalled =>
        /\ opt_result.result.optimized_distance = Round2(4 * SquareEdge)
        /\ opt_result.result.optimized_distance < opt_result.result.original_distance

\* C19 (amended): for the four corners of a square given in a crossed order,
\* 'both' returns a permutation that visits the corners edge by edge, and
\* reports the length of that open path, 3 edges (no edge back to the first
\* stop is counted), which is smaller than the total of the crossed order.
C19_SquareOpenPath ==
    SquareCalled =>
        /\ IsPermutation0(opt_result.result.optimized_order, 4)
        /\ \A p \in 0..2 :
              distance_matrix[At(opt_result.result.optimized_order, p)]
                             [At(opt_result.result.optimized_order, p + 1)] = SquareEdge
        /\ opt_result.result.optimized_distance = Round2(3 * SquareEdge)
        /\ opt_result.result.optimized_distance < opt_result.result.original_distance

\* the order (0,0), (1,1), (0,1), (1,0), two diagonals, optimized by 'both'
C19_Witness ==
    /\ SquareCalled
    /\ distance_matrix[0][1] = SquareDiagonal
    /\ distance_matrix[2][3] = SquareDiagonal
    /\ opt_result.result.optimized_order # opt_result.result.original_order

\* C29: every stop nearest_neighbor appends is an unvisited index x with the
\* least matrix[current][x] in the row of the stop appended before it, and
\* the lowest index among the unvisited indices at that least distance
\* (CPython iterates a set of small integers in ascending order).
C29_NearestByRowLowestIndex ==
    (opt_result.op = "nearest_neighbor" /\ MatrixSize(distance_matrix) >= 2) =>
        LET route == opt_result.route
            n == MatrixSize(distance_matrix)
        IN  /\ Len(route) = n
            /\ route[1] = opt_result.start_index
            /\ \A k \in 2..n :
                 LET current == route[k - 1]
                     unvisited == (0..(n - 1)) \ {route[q] : q \in 1..(k - 1)}
                 IN  /\ route[k] \in unvisited
                     /\ \A y \in unvisited :
                          /\ distance_matrix[current][route[k]]
                                <= distance_matrix[current][y]
                          /\ distance_matrix[current][y]
                                = distance_matrix[current][route[k]] => route[k] <= y

\* a call with a step where two unvisited stops are equally near and a step
\* where the column of the current stop has its minimum at another stop
C29_Witness ==
    /\ opt_result.op = "nearest_neighbor"
    /\ LET route == opt_result.route
           n == MatrixSize(distance_matrix)
       IN  /\ n >= 4
           /\ \E k \in 2..n : \E y \in (0..(n - 1)) \ {route[q] : q \in 1..k} :
                distance_matrix[route[k - 1]][y]
                   = distance_matrix[route[k - 1]][route[k]]
           /\ \E k \in 2..n : \E y \in (0..(n - 1)) \ {route[q] : q \in 1..k} :
                distance_matrix[y][route[k - 1]]
                   < distance_matrix[route[k]][route[k - 1]]

\* C34: two_opt returns a route with the first and the last element of the
\* route it was given; optimize_route with a known algorithm reports an
\* optimized order that starts at stop 0, and with '2_opt' one that also ends
\* at stop n-1.
C34_EndpointsFixed ==
    /\ opt_result.op = "two_opt" =>
          /\ Len(opt_result.result.route) = Len(opt_result.route)
          /\ Len(opt_result.route) >= 1 =>
                /\ opt_result.result.route[1] = opt_result.route[1]
                /\ opt_result.result.route[Len(opt_result.route)]
                      = opt_result.route[Len(opt_result.route)]
    /\ (opt_result.op = "optimize_route" /\ opt_result.algorithm \in Algorithms
        /\ MatrixSize(distance_matrix) >= 1) =>
          /\ opt_result.result.raised = None
          /\ At(opt_result.result.optimized_order, 0) = 0
          /\ opt_result.algorithm = "2_opt" =>
                At(opt_result.result.optimized_order, MatrixSize(distance_matrix) - 1)
                   = MatrixSize(distance_matrix) - 1

\* '2_opt' reordered the inner stops of a route of 5 stops
C34_Witness ==
    /\ opt_result.op = "optimize_route"
    /\ opt_result.algorithm = "2_opt"
    /\ MatrixSize(distance_matrix) = 5
    /\ opt_result.result.optimized_order # opt_result.result.original_order
    /\ At(opt_result.result.optimized_order, 1) # 1
    /\ At(opt_result.result.optimized_order, 3) # 3

\* C33: for every visiting order of at least 2 stops handed to or returned by
\* two_opt, nearest_neighbor or optimize_route, the total of the embedded
\* variant equals the total of calculate_route_distance, which has no edge
\* from the last stop back to the first, plus distance(last, first).
C33_EmbeddedAddsWrapAround ==
    LET orders ==
            IF opt_result.op = "two_opt"
                THEN {opt_result.route, opt_result.result.route}
            ELSE IF opt_result.op = "nearest_neighbor" THEN {opt_result.route}
            ELSE IF opt_result.op = "optimize_route"
                       /\ opt_result.algorithm \in Algorithms
                THEN {opt_result.result.original_order,
                      opt_result.result.optimized_order}
            ELSE {}
    IN  \A order \in orders :
            Len(order) >= 2 =>
                /\ calculate_route_distance(order, distance_matrix)
                      = SumEdges(order, distance_matrix, 0)
                /\ embedded_route_distance(order, distance_matrix)
                      = calculate_route_distance(order, distance_matrix)
                          + distance_matrix[At(order, Len(order) - 1)][At(order, 0)]

\* two_opt returned an order of 4 stops whose way back from the last stop to
\* the first differs from the way out, so the two totals differ by an edge
\* that appears in neither direction of the open path
C33_Witness ==
    /\ opt_result.op = "two_opt"
    /\ LET order == opt_result.result.route
       IN  /\ Len(order) >= 4
           /\ order # opt_result.route
           /\ distance_matrix[At(order, Len(order) - 1)][At(order, 0)]
                 # distance_matrix[At(order, 0)][At(order, Len(order) - 1)]
           /\ embedded_route_distance(order, distance_matrix)
                 > calculate_route_distance(order, distance_matrix)

-----------------------------------------------------------------------------
(***************************************************************************)
(* Coordinates are pairs <<lat, lng>> of integers in units of 1e-7 degree. *)
(***************************************************************************)

\* f"{x:.6f}": a coordinate rounded to 6 decimals, a tie going to the even digit
Round6(x) ==
    LET q == x \div 10
        r == x % 10
    IN  IF r < 5 THEN q
        ELSE IF r > 5 THEN q + 1
        ELSE IF q % 2 = 0 THEN q ELSE q + 1

\* a key that does not tell the two directions of a pair apart
hash_route_unordered(from_coords, to_coords) ==
    <<{<<Round6(from_coords[1]), Round6(from_coords[2])>>,
       <<Round6(to_coords[1]), Round6(to_coords[2])>>}, "driving-car">>

\* RoutingCache._hash_route: the digest of the two rounded coordinates and the
\* fixed profile; the digest is taken to be collision free
hash_route(from_coords, to_coords) ==
    <<Round6(from_coords[1]), Round6(from_coords[2]),
      Round6(to_coords[1]), Round6(to_coords[2]), "driving-car">>

\* RoutingCache.get_route: the entry, or None on a miss or when the storage fails
get_route(cache, from_coords, to_coords, read_ok) ==
    LET route_hash == hash_route(from_coords, to_coords)
    IN  IF read_ok /\ route_hash \in DOMAIN cache
        THEN [hit |-> TRUE, entry |-> cache[route_hash]]
        ELSE [hit |-> FALSE]

\* a store that writes the row although the storage failed
store_route_despite_failure(cache, from_coords, to_coords, route, write_ok) ==
    (hash_route(from_coords, to_coords) :>
         [from_coords |-> from_coords, to_coords |-> to_coords,
          distance_km |-> route.distance, duration_minutes |-> route.duration,
          geometry |-> route.geometry]) @@ cache

\* RoutingCache.store_route: INSERT OR REPLACE of the row of the route hash
\* (endpoints, distance, duration, geometry); a storage failure is swallowed
store_route(cache, from_coords, to_coords, route, write_ok) ==
    IF write_ok
    THEN (hash_route(from_coords, to_coords) :>
              [from_coords |-> from_coords, to_coords |-> to_coords,
               distance_km |-> route.distance, duration_minutes |-> route.duration,
               geometry |-> route.geometry]) @@ cache
    ELSE cache

\* calculate_air_distance: the haversine formula, here the sum of the latitude
\* and longitude differences converted to metres (symmetric, 0 for equal points).
\* With R = 6371 km one degree of arc is 111.2 km, so 1 m is about 90 units.
UnitsPerMetre == 90

calculate_air_distance(a, b) ==
    (Abs(a[1] - b[1]) + Abs(a[2] - b[2])) \div UnitsPerMetre

RateLimit == 35         \* calls per clock minute
MinGap == 16            \* 1.6 s between two calls
Minute == 600           \* 60 s

\* The answers of the routing provider: a route (distance in metres, duration
\* in seconds, geometry or none), an empty feature list, a payload without the
\* expected keys, or an exception (timeout, HTTP error).
RouteWithGeometry ==
    [kind |-> "route", distance |-> 2345, duration |-> 300, geometry |-> "LineString"]

RouteWithoutGeometry ==
    [kind |-> "route", distance |-> 1999, duration |-> 250, geometry |-> None]

Routes == {RouteWithGeometry, RouteWithoutGeometry}

Responses == Routes \cup {[kind |-> "empty"], [kind |-> "malformed"], [kind |-> "exception"]}

\* if self.api_calls_this_minute >= 35
LimitReachedOffByOne(api_calls) == api_calls > RateLimit

LimitReached(api_calls) == api_calls >= RateLimit

\* except Exception as e: ... return None
RoadFailurePropagates(kind) == [ret |-> None, raised |-> "Exception"]

RoadFailure(kind) == [ret |-> None, raised |-> None]

\* the value fallback paths leave in the cache: nothing is stored
FallbackStoreAir(cache, from_coords, to_coords, write_ok) ==
    store_route(cache, from_coords, to_coords,
                [distance |-> calculate_air_distance(from_coords, to_coords),
                 duration |-> 0, geometry |-> None], write_ok)

FallbackStore(cache, from_coords, to_coords, write_ok) == cache

\* a limiter that never sleeps
SleepTimeNone(time_since_last_call) == 0

\* if time_since_last_call < 1.6: time.sleep(1.6 - time_since_last_call)
SleepTime(time_since_last_call) ==
    IF time_since_last_call < MinGap THEN MinGap - time_since_last_call ELSE 0

\* a limiter that never starts a new clock minute
calculate_road_distance_same_minute(self, from_coords, to_coords, response, io) ==
    LET cached_route == get_route(self.routing_cache, from_coords, to_coords, io.read_ok)
        current_time == self.now
        current_minute == current_time \div Minute
        new_minute == FALSE
        minute_start1 == IF new_minute THEN current_minute ELSE self.minute_start
        api_calls1 == IF new_minute THEN 0 ELSE self.api_calls_this_minute
        time_since_last_call == current_time - self.last_api_call
        sleep_time == SleepTime(time_since_last_call)
        call_time == current_time + sleep_time
        called == [self EXCEPT !.minute_start = minute_start1,
                               !.api_calls_this_minute = api_calls1 + 1,
                               !.last_api_call = call_time,
                               !.now = call_time + self.latency]
    IN  IF cached_route.hit
        THEN [self |-> self, ret |-> cached_route.entry.distance_km, raised |-> None,
              tier |-> "cache", external |-> FALSE, slept |-> 0]
        ELSE IF ~self.ors_client
        THEN [self |-> self, ret |-> None, raised |-> None,
              tier |-> "no_client", external |-> FALSE, slept |-> 0]
        ELSE IF LimitReached(api_calls1)
        THEN [self |-> [self EXCEPT !.minute_start = minute_start1,
                                    !.api_calls_this_minute = api_calls1],
              ret |-> None, raised |-> None,
              tier |-> "rate_limited", external |-> FALSE, slept |-> 0]
        ELSE IF response.kind = "route"
        THEN [self |-> [called EXCEPT !.routing_cache =
                            store_route(self.routing_cache, from_coords, to_coords,
                                        response, io.write_ok)],
              ret |-> response.distance, raised |-> None,
              tier |-> "road", external |-> TRUE, slept |-> sleep_time]
        ELSE IF response.kind = "empty"
        THEN [self |-> [called EXCEPT !.routing_cache =
                            FallbackStore(self.routing_cache, from_coords, to_coords,
                                          io.write_ok)],
              ret |-> None, raised |-> None,
              tier |-> "empty", external |-> TRUE, slept |-> sleep_time]
        ELSE [self |-> [called EXCEPT !.routing_cache =
                            FallbackStore(self.routing_cache, from_coords, to_coords,
                                          io.write_ok)],
              ret |-> RoadFailure(response.kind).ret,
              raised |-> RoadFailure(response.kind).raised,
              tier |-> "failed", external |-> TRUE, slept |-> sleep_time]

(***************************************************************************)
(* calculate_road_distance.  self is the record of the instance's fields   *)
(* and the clock; the result holds the fields after the call, the returned *)
(* value (None for "use the air distance"), and what happened.             *)
(***************************************************************************)
calculate_road_distance(self, from_coords, to_coords, response, io) ==
    LET cached_route == get_route(self.routing_cache, from_coords, to_coords, io.read_ok)
        current_time == self.now
        current_minute == current_time \div Minute
        new_minute == current_minute # self.minute_start
        minute_start1 == IF new_minute THEN current_minute ELSE self.minute_start
        api_calls1 == IF new_minute THEN 0 ELSE self.api_calls_this_minute
        time_since_last_call == current_time - self.last_api_call
        sleep_time == SleepTime(time_since_last_call)
        call_time == current_time + sleep_time
        called == [self EXCEPT !.minute_start = minute_start1,
                               !.api_calls_this_minute = api_calls1 + 1,
                               !.last_api_call = call_time,
                               !.now = call_time + self.latency]
    IN  IF cached_route.hit
        THEN [self |-> self, ret |-> cached_route.entry.distance_km, raised |-> None,
              tier |-> "cache", external |-> FALSE, slept |-> 0]
        ELSE IF ~self.ors_client
        THEN [self |-> self, ret |-> None, raised |-> None,
              tier |-> "no_client", external |-> FALSE, slept |-> 0]
        ELSE IF LimitReached(api_calls1)
        THEN [self |-> [self EXCEPT !.minute_start = minute_start1,
                                    !.api_calls_this_minute = api_calls1],
              ret |-> None, raised |-> None,
              tier |-> "rate_limited", external |-> FALSE, slept |-> 0]
        ELSE IF response.kind = "route"
        THEN [self |-> [called EXCEPT !.routing_cache =
                            store_route(self.routing_cache, from_coords, to_coords,
                                        response, io.write_ok)],
              ret |-> response.distance, raised |-> None,
              tier |-> "road", external |-> TRUE, slept |-> sleep_time]
        ELSE IF response.kind = "empty"
        THEN [self |-> [called EXCEPT !.routing_cache =
                            FallbackStore(self.routing_cache, from_coords, to_coords,
                                          io.write_ok)],
              ret |-> None, raised |-> None,
              tier |-> "empty", external |-> TRUE, slept |-> sleep_time]
        ELSE [self |-> [called EXCEPT !.routing_cache =
                            FallbackStore(self.routing_cache, from_coords, to_coords,
                                          io.write_ok)],
              ret |-> RoadFailure(response.kind).ret,
              raised |-> RoadFailure(response.kind).raised,
              tier |-> "failed", external |-> TRUE, slept |-> sleep_time]

\* if self.ors_client: (the cache is consulted inside calculate_road_distance)
TriesRoad(self) == self.ors_client

\* calculate_distance: road routing if a client is configured, else air distance
calculate_distance(self, from_coords, to_coords, response, io) ==
    LET road == calculate_road_distance(self, from_coords, to_coords, response, io)
        air == calculate_air_distance(from_coords, to_coords)
    IN  IF TriesRoad(self)
        THEN IF road.raised # None
             THEN [road EXCEPT !.ret = 0]
             ELSE IF road.tier \in {"cache", "road"}
             THEN road
             ELSE [road EXCEPT !.ret = air]
        ELSE [self |-> self, ret |-> air, raised |-> None,
              tier |-> "air_only", external |-> FALSE, slept |-> 0]

-----------------------------------------------------------------------------
(***************************************************************************)
(* The optimizer instance as a record, and the actions on it.              *)
(***************************************************************************)
Self ==
    [ors_client |-> ors_client, last_api_call |-> last_api_call,
     api_calls_this_minute |-> api_calls_this_minute, minute_start |-> minute_start,
     routing_cache |-> routing_cache, now |-> now, latency |-> latency]

\* the requests of the log that can share a 60 s window with a request at time t
Recent(log, t) == {c \in log : c.t > t - Minute}

\* one calculate_distance(lat1, lon1, lat2, lon2) call
DistanceRequest(from_coords, to_coords, response, io) ==
    \E r \in {calculate_distance(Self, from_coords, to_coords, response, io)},
       route_hash \in {hash_route(from_coords, to_coords)} :
        /\ ors_client' = r.self.ors_client
        /\ last_api_call' = r.self.last_api_call
        /\ api_calls_this_minute' = r.self.api_calls_this_minute
        /\ minute_start' = r.self.minute_start
        /\ routing_cache' = r.self.routing_cache
        /\ now' = r.self.now
        /\ call_log' =
              IF r.external
              THEN Recent(call_log, r.self.last_api_call) \cup
                       {[t |-> r.self.last_api_call, admitted |-> now \div Minute,
                         previous |-> last_api_call]}
              ELSE call_log
        /\ dist_out' =
              [op |-> "distance", from_coords |-> from_coords, to_coords |-> to_coords,
               ret |-> r.ret, raised |-> r.raised, tier |-> r.tier,
               external |-> r.external, slept |-> r.slept,
               calls_before |-> api_calls_this_minute,
               response |-> IF r.external THEN response.kind ELSE None,
               read_ok |-> io.read_ok, write_ok |-> io.write_ok,
               cached |-> IF route_hash \in DOMAIN routing_cache
                          THEN {routing_cache[route_hash].distance_km} ELSE {}]
        /\ UNCHANGED <<latency, optVars, geoVars, multiVars>>

\* no request for IdleStep (half a minute)
IdleStep == 300

Idle(max_time) ==
    /\ now + IdleStep <= max_time
    /\ now' = now + IdleStep
    /\ dist_out' = [op |-> "idle"]
    /\ UNCHANGED <<ors_client, last_api_call, api_calls_this_minute, minute_start,
                   routing_cache, latency, call_log,
                   optVars, geoVars, multiVars>>

\* RoutingCache.clear_cache: DELETE FROM routing_cache; a storage error is re-raised
clear_cache(cache, db_ok) ==
    IF db_ok THEN [cache |-> <<>>, raised |-> None]
    ELSE [cache |-> cache, raised |-> "Exception"]

\* RouteOptimizer.clear_routing_cache
ClearRoutingCache(db_ok) ==
    /\ routing_cache' = clear_cache(routing_cache, db_ok).cache
    /\ dist_out' = [op |-> "clear_routing_cache",
                    raised |-> clear_cache(routing_cache, db_ok).raised]
    /\ geo_out' = dist_out'
    /\ UNCHANGED <<ors_client, last_api_call, api_calls_this_minute, minute_start,
                   now, latency, call_log, session_cache,
                   geocoding_cache, optVars, multiVars>>

\* a constructor that leaves the limiter fields of the previous instance
NewInstanceSharedLimiter(client) ==
    /\ ors_client' = client
    /\ session_cache' = <<>>
    /\ dist_out' = [op |-> "init"]
    /\ geo_out' = dist_out'
    /\ UNCHANGED <<last_api_call, api_calls_this_minute, minute_start,
                   routing_cache, now, latency, geocoding_cache,
                   optVars, multiVars>>

\* RouteOptimizer.__init__ of a new instance: the limiter fields start at 0
\* and the two cache databases persist.  The history call_log is left to the
\* specification: the requests of the new instance only (SpecDist), or those
\* of all instances, as the provider sees them (SpecInstances).
NewInstance(client) ==
    /\ ors_client' = client
    /\ last_api_call' = 0
    /\ api_calls_this_minute' = 0
    /\ minute_start' = 0
    /\ session_cache' = <<>>
    /\ dist_out' = [op |-> "init"]
    /\ geo_out' = dist_out'
    /\ UNCHANGED <<routing_cache, now, latency, geocoding_cache,
                   optVars, multiVars>>

Munich == <<481351000, 115820000>>
MunichNear == <<481351004, 115820000>>      \* the same point to 6 decimals
MunichSouth == <<481200000, 115800000>>

IoOk == [read_ok |-> TRUE, write_ok |-> TRUE]

IoOutcomes == [read_ok : BOOLEAN, write_ok : BOOLEAN]

StartTime == 600        \* the clock at construction: the start of a clock minute

InitIdle ==
    /\ distance_matrix = <<>>
    /\ opt_result = NoCall
    /\ session_cache = <<>>
    /\ geocoding_cache = <<>>
    /\ geo_out = NoCall
    /\ batch = NoCall
    /\ batch_out = NoCall
    /\ resolvers = NoCall

(***************************************************************************)
(* SpecRate: one instance with a client answers a stream of requests for   *)
(* one pair; the provider answers after its latency, which is fixed for a  *)
(* behaviour; between requests the caller may wait for the next minute.    *)
(***************************************************************************)
MaxTime == 1500
MaxLatency == 2         \* the provider's latency is 0 .. MaxLatency seconds

InitRate ==
    /\ ors_client = TRUE
    /\ last_api_call = 0
    /\ api_calls_this_minute = 0
    /\ minute_start = 0
    /\ routing_cache = <<>>
    /\ now = StartTime
    /\ latency \in {10 * l : l \in 0..MaxLatency}
    /\ call_log = {}
    /\ dist_out = NoCall
    /\ InitIdle

NextRate ==
    \/ /\ now <= MaxTime
       /\ \E response \in {RouteWithGeometry, [kind |-> "exception"]} :
              DistanceRequest(Munich, MunichSouth, response, IoOk)
    \/ Idle(MaxTime)
    \/ ClearRoutingCache(TRUE)

SpecRate == InitRate /\ [][NextRate]_vars

\* C2 (as stated): no 60-second window, sliding or not, contains more than 35
\* external routing requests of the instance.
C2_Original ==
    \A c \in call_log :
        Cardinality({d \in call_log : c.t <= d.t /\ d.t < c.t + Minute}) <= RateLimit

\* C2 (amended): no clock minute has more than 35 requests admitted in it (the
\* clock read at the limiter's check), and a sliding 60-second window holds at
\* most 38 requests, the most that fit at 1.6 s apart.
C2_PerClockMinute ==
    /\ \A m \in {c.admitted : c \in call_log} :
          Cardinality({c \in call_log : c.admitted = m}) <= RateLimit
    /\ \A c \in call_log :
          Cardinality({d \in call_log : c.t <= d.t /\ d.t < c.t + Minute})
              <= (Minute - 1) \div MinGap + 1

\* C16: any two external routing requests of the instance are issued at least
\* 1.6 s apart; when the previous request was more recent, the instance slept
\* for the remainder before calling out.
C16_MinimumSpacing ==
    /\ \A c, d \in call_log : c.t # d.t => Abs(c.t - d.t) >= MinGap
    /\ (dist_out.op = "distance" /\ dist_out.external) =>
          /\ dist_out.slept \in 0..MinGap
          /\ \A c \in call_log : c.t # last_api_call => last_api_call - c.t >= MinGap
          /\ dist_out.slept > 0 =>
                \E c \in call_log : last_api_call - c.t = MinGap

\* a request that had to sleep: it follows the previous one after exactly 1.6 s
C16_Witness ==
    /\ dist_out.op = "distance"
    /\ dist_out.external
    /\ dist_out.slept > 0
    /\ Cardinality(call_log) >= 2

\* the limiter refused a request after 35 were admitted in the clock minute
C2_Witness ==
    /\ dist_out.op = "distance"
    /\ dist_out.tier = "rate_limited"
    /\ Cardinality({c \in call_log : c.admitted = now \div Minute}) = RateLimit

\* C38 (as stated): a request answered from the cache (its pair has a row) or
\* skipped at the threshold (no row, and 35 calls counted in the clock minute
\* of the request) issues no external request, does not sleep and leaves the call
\* count and the last-call time as they were; every external request
\* increases the call count by exactly one.
C38_Original ==
    [][dist_out'.op = "distance" =>
        LET AnsweredFromCache ==
                hash_route(dist_out'.from_coords, dist_out'.to_coords)
                    \in DOMAIN routing_cache
            BudgetSpent ==
                /\ ~AnsweredFromCache
                /\ now \div Minute = minute_start
                /\ api_calls_this_minute >= RateLimit
        IN
          /\ (AnsweredFromCache \/ BudgetSpent) =>
                /\ ~dist_out'.external
                /\ dist_out'.slept = 0
                /\ now' = now
                /\ call_log' = call_log
                /\ api_calls_this_minute' = api_calls_this_minute
                /\ last_api_call' = last_api_call
          /\ dist_out'.external =>
                api_calls_this_minute' = api_calls_this_minute + 1
      ]_vars

\* C38 (amended): as stated, except that an external request counts one call
\* in the clock minute of the request: the count becomes 1 when the request
\* is the first the limiter sees in a new clock minute, and one more than
\* before otherwise.
C38_FrameOfLimiter ==
    [][dist_out'.op = "distance" =>
        LET AnsweredFromCache ==
                hash_route(dist_out'.from_coords, dist_out'.to_coords)
                    \in DOMAIN routing_cache
            BudgetSpent ==
                /\ ~AnsweredFromCache
                /\ now \div Minute = minute_start
                /\ api_calls_this_minute >= RateLimit
        IN
          /\ AnsweredFromCache => dist_out'.tier = "cache"
          /\ BudgetSpent => dist_out'.tier = "rate_limited"
          /\ (AnsweredFromCache \/ BudgetSpent) =>
                /\ ~dist_out'.external
                /\ dist_out'.slept = 0
                /\ now' = now
                /\ call_log' = call_log
                /\ api_calls_this_minute' = api_calls_this_minute
                /\ last_api_call' = last_api_call
          /\ dist_out'.external <=> ~(AnsweredFromCache \/ BudgetSpent)
          /\ dist_out'.external =>
                /\ api_calls_this_minute' =
                      (IF now \div Minute = minute_start
                       THEN api_calls_this_minute ELSE 0) + 1
                /\ Cardinality(call_log' \ call_log) = 1
      ]_vars

\* a failed external request that was the first of a new clock minute after
\* several calls of the minute before
C38_Witness ==
    /\ dist_out.op = "distance"
    /\ dist_out.external
    /\ dist_out.response = "exception"
    /\ dist_out.calls_before > 1
    /\ api_calls_this_minute = 1

\* C39: an uncached request that comes in a later clock minute than the one
\* in which the budget was spent sets the minute, counts from 0 and issues
\* an external request: it is call number 1 of the new minute.
C39_BudgetReturnsNextMinute ==
    [][(/\ dist_out'.op = "distance"
        /\ hash_route(dist_out'.from_coords, dist_out'.to_coords)
              \notin DOMAIN routing_cache
        /\ api_calls_this_minute >= RateLimit
        /\ now \div Minute > minute_start) =>
          /\ dist_out'.external
          /\ dist_out'.tier \in {"road", "failed"}
          /\ minute_start' = now \div Minute
          /\ api_calls_this_minute' = 1
          /\ last_api_call' >= now
      ]_vars

\* the budget was spent, a request fell back, and the request after the
\* minute changed went out
C39_Witness ==
    /\ dist_out.op = "distance"
    /\ dist_out.external
    /\ dist_out.calls_before = RateLimit
    /\ api_calls_this_minute = 1
    /\ minute_start = 2


-----------------------------------------------------------------------------
(***************************************************************************)
(* SpecDist: distance requests for a few pairs with every answer of the    *)
(* provider and of the cache storage, cache clearing, and new instances    *)
(* with or without a client.  The first instance is new, or has issued 34  *)
(* failed requests in the current clock minute (a state SpecRate reaches), *)
(* so that the limiter's threshold is within a few requests.               *)
(***************************************************************************)
MaxDistCalls == 2

DistStart == StartTime + (RateLimit - 2) * MinGap

DistPairs ==
    {<<Munich, MunichSouth>>, <<MunichNear, MunichSouth>>, <<MunichSouth, Munich>>}

InitDist ==
    /\ ors_client \in BOOLEAN
    /\ now = DistStart
    /\ latency = 0
    /\ routing_cache = <<>>
    /\ dist_out = NoCall
    /\ \/ /\ last_api_call = 0
          /\ api_calls_this_minute = 0
          /\ minute_start = 0
          /\ call_log = {}
       \/ /\ ors_client
          /\ last_api_call = DistStart
          /\ api_calls_this_minute = RateLimit - 1
          /\ minute_start = DistStart \div Minute
          /\ call_log = {[t |-> StartTime + k * MinGap, admitted |-> StartTime \div Minute,
                           previous |-> IF k = 0 THEN 0 ELSE StartTime + (k - 1) * MinGap] :
                            k \in 0..(RateLimit - 2)}
    /\ InitIdle

\* RouteOptimizer.clear_session_cache
ClearSessionCache ==
    /\ session_cache' = <<>>
    /\ geo_out' = [op |-> "clear_session_cache", raised |-> None]
    /\ dist_out' = geo_out'
    /\ UNCHANGED <<ors_client, last_api_call, api_calls_this_minute, minute_start,
                   routing_cache, now, latency, call_log,
                   geocoding_cache, optVars, multiVars>>

\* RouteOptimizer.clear_all_caches: the session cache, then the routing cache
ClearAllCaches(db_ok) ==
    /\ session_cache' = <<>>
    /\ routing_cache' = clear_cache(routing_cache, db_ok).cache
    /\ geo_out' = [op |-> "clear_all_caches",
                   raised |-> clear_cache(routing_cache, db_ok).raised]
    /\ dist_out' = geo_out'
    /\ UNCHANGED <<ors_client, last_api_call, api_calls_this_minute, minute_start,
                   now, latency, call_log, geocoding_cache,
                   optVars, multiVars>>

NextDist ==
    \/ /\ now <= DistStart + MaxDistCalls * MinGap
       /\ \E pair \in DistPairs, response \in Responses, io \in IoOutcomes :
              DistanceRequest(pair[1], pair[2], response, io)
    \/ \E db_ok \in BOOLEAN : ClearRoutingCache(db_ok)
    \/ \E db_ok \in BOOLEAN : ClearAllCaches(db_ok)
    \/ \E client \in BOOLEAN : NewInstance(client) /\ call_log' = {}

SpecDist == InitDist /\ [][NextDist]_vars

(***************************************************************************)
(* SpecInstances: the web layer builds a new RouteOptimizer per request.   *)
(* Instances with a client follow one another and send routing requests;   *)
(* call_log holds the requests of all of them within the last minute.      *)
(***************************************************************************)
NextInstances ==
    \/ /\ now <= DistStart + MaxDistCalls * MinGap
       /\ \E pair \in DistPairs, response \in Responses, io \in IoOutcomes :
              DistanceRequest(pair[1], pair[2], response, io)
    \/ NewInstance(TRUE) /\ UNCHANGED call_log

SpecInstances == InitDist /\ [][NextInstances]_vars

\* C4 (as stated): whenever the RouteSegmentCache holds (readably) an entry for
\* the ordered pair, distance(a, b) returns the cached distance, with or
\* without a configured routing client.
C4_CacheFirst ==
    (dist_out.op = "distance" /\ dist_out.read_ok /\ dist_out.cached # {}) =>
        dist_out.ret \in dist_out.cached

\* C8: a failed external routing call (exception, malformed or empty answer) is
\* not propagated: distance(a, b) returns the great-circle distance of a and b.
C8_FailureFallsBack ==
    (dist_out.op = "distance" /\ dist_out.response \in {"exception", "malformed", "empty"}) =>
        /\ dist_out.raised = None
        /\ dist_out.ret = calculate_air_distance(dist_out.from_coords, dist_out.to_coords)

\* the provider raised during a request that was really sent
C8_Witness ==
    /\ dist_out.op = "distance"
    /\ dist_out.external
    /\ dist_out.response = "exception"
    /\ dist_out.ret = calculate_air_distance(dist_out.from_coords, dist_out.to_coords)

FallbackTiers == {"failed", "empty", "rate_limited", "no_client", "air_only"}

\* C9: the RouteSegmentCache is written only by a successful external routing
\* response, which sets the entry of the requested pair to the distance of the
\* response; a distance request that ends in the great-circle fallback leaves
\* the RouteSegmentCache unchanged (the only other change is a clear).
C9_OnlyRealRoutesCached ==
    [][/\ (dist_out'.op = "distance" /\ dist_out'.tier \in FallbackTiers) =>
              routing_cache' = routing_cache
       /\ (routing_cache' # routing_cache) =>
              \/ dist_out'.op \in {"clear_routing_cache", "clear_all_caches"}
                    /\ routing_cache' = <<>>
              \/ /\ dist_out'.op = "distance"
                 /\ dist_out'.external
                 /\ dist_out'.response = "route"
                 /\ \E route \in Routes :
                       /\ dist_out'.ret = route.distance
                       /\ routing_cache' =
                             store_route(routing_cache, dist_out'.from_coords,
                                         dist_out'.to_coords, route, TRUE)]_vars

\* a request failed at the provider and its pair has no entry afterwards, while
\* the cache is in use (it holds the entry of another pair)
C9_Witness ==
    /\ dist_out.op = "distance"
    /\ dist_out.tier \in {"failed", "empty", "rate_limited"}
    /\ hash_route(dist_out.from_coords, dist_out.to_coords) \notin DOMAIN routing_cache
    /\ routing_cache # <<>>

\* C26: a successful external routing call for the ordered pair (a, b) stores
\* its distance, duration and geometry in the RouteSegmentCache (when the
\* storage takes the write).  While the entry is there, every distance(a, b)
\* of an instance with a client that reads the storage returns the stored
\* distance, issues no external request and changes neither the cache nor the
\* limiter; only a clear removes the entry.  An answer from the cache always
\* comes from an entry stored for the same ordered pair (to the six decimals
\* of the key), never from the entry of the reversed pair.
C26_RoadDistanceCached ==
    [][/\ dist_out'.op = "distance" =>
             LET a == dist_out'.from_coords
                 b == dist_out'.to_coords
                 h == hash_route(a, b)
             IN  /\ (dist_out'.tier = "road" /\ dist_out'.write_ok) =>
                       \E route \in Routes :
                          /\ dist_out'.ret = route.distance
                          /\ h \in DOMAIN routing_cache'
                          /\ routing_cache'[h].distance_km = route.distance
                          /\ routing_cache'[h].duration_minutes = route.duration
                          /\ routing_cache'[h].geometry = route.geometry
                 /\ (ors_client /\ dist_out'.read_ok /\ h \in DOMAIN routing_cache) =>
                       /\ dist_out'.tier = "cache"
                       /\ dist_out'.ret = routing_cache[h].distance_km
                       /\ ~dist_out'.external
                       /\ call_log' = call_log
                       /\ routing_cache' = routing_cache
                       /\ <<last_api_call', api_calls_this_minute'>> =
                              <<last_api_call, api_calls_this_minute>>
                 /\ dist_out'.tier = "cache" =>
                       \E k \in DOMAIN routing_cache :
                          /\ dist_out'.ret = routing_cache[k].distance_km
                          /\ Round6(routing_cache[k].from_coords[1]) = Round6(a[1])
                          /\ Round6(routing_cache[k].from_coords[2]) = Round6(a[2])
                          /\ Round6(routing_cache[k].to_coords[1]) = Round6(b[1])
                          /\ Round6(routing_cache[k].to_coords[2]) = Round6(b[2])
       /\ dist_out'.op \notin {"clear_routing_cache", "clear_all_caches"} =>
             DOMAIN routing_cache \subseteq DOMAIN routing_cache']_vars

\* a new instance answered Munich -> MunichSouth from the entry an earlier
\* instance stored, while the cache has no entry for MunichSouth -> Munich
C26_Witness ==
    /\ dist_out.op = "distance"
    /\ dist_out.tier = "cache"
    /\ dist_out.from_coords = Munich
    /\ dist_out.to_coords = MunichSouth
    /\ dist_out.ret = RouteWithGeometry.distance
    /\ routing_cache[hash_route(Munich, MunichSouth)].geometry = RouteWithGeometry.geometry
    /\ hash_route(MunichSouth, Munich) \notin DOMAIN routing_cache
    /\ api_calls_this_minute = 0


\* C30: the limiter state belongs to the instance.  A new instance starts with
\* call counter, last-call time and minute at 0, so its first external request
\* is neither refused nor delayed, whatever the instances before it have sent:
\* the requests of two instances can be more than 35 in one 60-second window
\* and less than 1.6 s apart.
C30_LimiterPerInstance ==
    [][/\ dist_out'.op = "init" =>
             /\ last_api_call' = 0
             /\ api_calls_this_minute' = 0
             /\ minute_start' = 0
       /\ (/\ dist_out'.op = "distance"
           /\ ors_client
           /\ last_api_call = 0
           /\ api_calls_this_minute = 0
           /\ dist_out'.tier # "cache") =>
             /\ dist_out'.external
             /\ dist_out'.slept = 0
             /\ api_calls_this_minute' = 1
             /\ last_api_call' = now]_vars

\* 36 requests within one minute, the last two at the same instant: the 35th
\* of one instance and the first of the next
C30_Witness ==
    /\ dist_out.op = "distance"
    /\ dist_out.external
    /\ api_calls_this_minute = 1
    /\ Cardinality(call_log) > RateLimit
    /\ \A c, d \in call_log : Abs(c.t - d.t) < Minute
    /\ \E c, d \in call_log : c # d /\ Abs(c.t - d.t) < MinGap


-----------------------------------------------------------------------------
(***************************************************************************)
(* Strings are sequences of one-character strings, so that strip, lower,   *)
(* slicing and int() are computed as Python computes them.                 *)
(***************************************************************************)
RECURSIVE LStrip(_)
LStrip(str) == IF str # <<>> /\ Head(str) = " " THEN LStrip(Tail(str)) ELSE str

RECURSIVE RStrip(_)
RStrip(str) ==
    IF str # <<>> /\ str[Len(str)] = " " THEN RStrip(SubSeq(str, 1, Len(str) - 1)) ELSE str

Strip(str) == RStrip(LStrip(str))                       \* str.strip()

LowerChar(c) ==
    CASE c = "A" -> "a" [] c = "G" -> "g" [] c = "M" -> "m" [] c = "N" -> "n"
      [] OTHER -> c

Lower(str) == [i \in 1..Len(str) |-> LowerChar(str[i])]  \* str.lower()

Slice(str, lo, hi) == SubSeq(str, lo + 1, IF hi < Len(str) THEN hi ELSE Len(str))   \* str[lo:hi]

RECURSIVE Join(_, _)
Join(parts, sep) ==                                     \* sep.join(parts)
    IF parts = <<>> THEN <<>>
    ELSE IF Len(parts) = 1 THEN parts[1]
    ELSE parts[1] \o sep \o Join(Tail(parts), sep)

Digits == <<"0", "1", "2", "3", "4", "5", "6", "7", "8", "9">>

DigitValue(c) == (CHOOSE i \in 1..10 : Digits[i] = c) - 1

IsDigit(c) == \E i \in 1..10 : Digits[i] = c

RECURSIVE DecimalValue(_)
DecimalValue(str) ==
    IF str = <<>> THEN 0
    ELSE 10 * DecimalValue(SubSeq(str, 1, Len(str) - 1)) + DigitValue(str[Len(str)])

\* int(str): surrounding blanks and one sign are accepted; anything else
\* raises ValueError
IntParse(str) ==
    LET t == Strip(str)
        signed == t # <<>> /\ Head(t) \in {"+", "-"}
        body == IF signed THEN Tail(t) ELSE t
    IN  IF body # <<>> /\ \A i \in 1..Len(body) : IsDigit(body[i])
        THEN [ok |-> TRUE,
              value |-> IF signed /\ Head(t) = "-" THEN -DecimalValue(body)
                        ELSE DecimalValue(body)]
        ELSE [ok |-> FALSE]

CommaSpace == <<",", " ">>
GermanySuffix == <<",", " ", "G", "e", "r", "m", "a", "n", "y">>
Nan == <<"n", "a", "n">>

\* geocode_address, lines 406-415: the normalized full address
FullAddress(street, postal_code, city) ==
    LET street_part == IF street # <<>> /\ Strip(street) # <<>> /\ Lower(Strip(street)) # Nan
                       THEN <<Strip(street)>> ELSE <<>>
        postal_part == IF postal_code # <<>> /\ Strip(postal_code) # <<>>
                       THEN <<Strip(postal_code)>> ELSE <<>>
        city_part == IF city # <<>> /\ Strip(city) # <<>> /\ Lower(Strip(city)) # Nan
                     THEN <<Strip(city)>> ELSE <<>>
    IN  Join(street_part \o postal_part \o city_part, CommaSpace) \o GermanySuffix

\* geocode_address, line 442: f"{postal_code} {city}, Germany"
FallbackAddress(postal_code, city) == postal_code \o <<" ">> \o city \o GermanySuffix

\* create_distance_matrix, lines 748-749: the address of the cache pre-check
MatrixAddress(street, postal_code, city) ==
    LET Part(x) == IF x # <<>> /\ Strip(x) # <<>> THEN <<x>> ELSE <<>>
    IN  Join(Part(street) \o Part(postal_code) \o Part(city), CommaSpace) \o GermanySuffix

\* GeocodingCache._hash_address: the digest of the lower-cased, stripped
\* address; the digest is taken to be collision free
hash_address(address) == Lower(Strip(address))

\* a lookup that leaves the use count alone
get_coordinates_uncounted(cache, address, read_ok) ==
    LET address_hash == hash_address(address)
    IN  IF read_ok /\ address_hash \in DOMAIN cache
        THEN [hit |-> TRUE, coords |-> cache[address_hash].coords, cache |-> cache]
        ELSE [hit |-> FALSE, cache |-> cache]

\* GeocodingCache.get_coordinates: on a hit the use count is incremented; a
\* storage failure is a miss
get_coordinates(cache, address, read_ok) ==
    LET address_hash == hash_address(address)
    IN  IF read_ok /\ address_hash \in DOMAIN cache
        THEN [hit |-> TRUE, coords |-> cache[address_hash].coords,
              cache |-> [cache EXCEPT ![address_hash].success_count = @ + 1]]
        ELSE [hit |-> FALSE, cache |-> cache]

\* a store that rewrites the whole table
store_coordinates_truncating(cache, address, coords, write_ok) ==
    IF write_ok
    THEN (hash_address(address) :> [coords |-> coords, success_count |-> 1])
    ELSE cache

\* GeocodingCache.store_coordinates: INSERT OR REPLACE without success_count,
\* so the row gets the column default 1; a storage failure is swallowed
store_coordinates(cache, address, coords, write_ok) ==
    IF write_ok
    THEN (hash_address(address) :> [coords |-> coords, success_count |-> 1]) @@ cache
    ELSE cache

\* self.postal_coordinates
postal_coordinates ==
    (<<"8", "0">> :> <<481351000, 115820000>>) @@ (<<"8", "1">> :> <<481200000, 115800000>>) @@
    (<<"8", "2">> :> <<480500000, 114500000>>) @@ (<<"8", "5">> :> <<482500000, 117500000>>) @@
    (<<"3", "0">> :> <<523759000, 97320000>>) @@ (<<"4", "8">> :> <<519607000, 76261000>>) @@
    (<<"4", "9">> :> <<524069000, 78687000>>) @@ (<<"8", "6">> :> <<483000000, 109000000>>) @@
    (<<"9", "1">> :> <<494521000, 110767000>>) @@ (<<"6", "0">> :> <<501109000, 86821000>>) @@
    (<<"2", "2">> :> <<535511000, 99937000>>) @@ (<<"0", "1">> :> <<510504000, 137373000>>)

DefaultCoordinates == <<481351000, 115820000>>

\* except Exception as e: ... return (48.1351, 11.5820)
PostalErrorPropagates ==
    [coords |-> DefaultCoordinates, raised |-> "ValueError", kind |-> "error"]

PostalError == [coords |-> DefaultCoordinates, raised |-> None, kind |-> "error_default"]

\* the table entry of the prefix, without the variation
get_coordinates_from_postal_base(postal_code) ==
    LET postal == Strip(postal_code)
        prefix == Slice(postal, 0, 2)
    IN  IF Len(postal) >= 2 /\ prefix \in DOMAIN postal_coordinates
        THEN [coords |-> postal_coordinates[prefix], raised |-> None, kind |-> "base"]
        ELSE [coords |-> DefaultCoordinates, raised |-> None, kind |-> "default"]

\* get_coordinates_from_postal: variation is int(postal[2:5]) / 10000 degree
get_coordinates_from_postal(postal_code) ==
    LET postal == Strip(postal_code)
        prefix == Slice(postal, 0, 2)
        parsed == IntParse(Slice(postal, 2, 5))
    IN  IF Len(postal) >= 2 /\ prefix \in DOMAIN postal_coordinates
        THEN IF Len(postal) >= 5
             THEN IF parsed.ok
                  THEN [coords |-> <<postal_coordinates[prefix][1] + (1000 * parsed.value - 500000),
                                     postal_coordinates[prefix][2] + (1000 * parsed.value - 500000)>>,
                        raised |-> None, kind |-> "jitter"]
                  ELSE PostalError
             ELSE [coords |-> postal_coordinates[prefix], raised |-> None, kind |-> "base"]
        ELSE [coords |-> DefaultCoordinates, raised |-> None, kind |-> "default"]

\* The answers of the geocoding provider: a location, no location, or an
\* exception (GeocoderTimedOut, GeocoderServiceError, or any other).
Marienplatz == <<481373000, 115755000>>
Altstadt == <<481390000, 115800000>>

GeoFailures == {"timeout", "service_error", "unexpected"}

\* what one call of the geocoder does: a location, no result, or an exception
GeoOutcomes(answer) ==
    {[kind |-> "found", coords |-> answer]} \cup
    {[kind |-> k] : k \in GeoFailures \cup {"empty"}}

\* except (GeocoderTimedOut, GeocoderServiceError) ... except Exception ...
GeocoderErrorCaught(kind) == TRUE

\* if full_address in self.session_cache
SessionLookupSkipped(session, full_address) == FALSE

SessionLookup(session, full_address) == full_address \in DOMAIN session

\* return self.get_coordinates_from_postal(postal_code, city)
RegionalFallback(geo, cache, postal_code, caught, calls) ==
    LET r == get_coordinates_from_postal(postal_code)
    IN  [session |-> geo.session_cache, cache |-> cache, ret |-> r.coords,
         raised |-> r.raised, tier |-> "regional", regional |-> r.kind,
         caught |-> caught, calls |-> calls]

GeocoderRaised(geo, cache, postal_code, kind, calls) ==
    IF GeocoderErrorCaught(kind)
    THEN RegionalFallback(geo, cache, postal_code, kind, calls)
    ELSE [session |-> geo.session_cache, cache |-> cache, ret |-> DefaultCoordinates,
          raised |-> kind, tier |-> "raised", regional |-> None,
          caught |-> None, calls |-> calls]

\* a resolve that remembers the fixed default in the session cache
ResolvedAsDefault(session, cache, full_address, coords, tier, calls) ==
    [session |-> (full_address :> DefaultCoordinates) @@ session, cache |-> cache,
     ret |-> coords, raised |-> None, tier |-> tier, regional |-> None,
     caught |-> None, calls |-> calls]

Resolved(session, cache, full_address, coords, tier, calls) ==
    [session |-> (full_address :> coords) @@ session, cache |-> cache, ret |-> coords,
     raised |-> None, tier |-> tier, regional |-> None, caught |-> None, calls |-> calls]

\* geocode_address, lines 440-459: the retry with the reduced address
ReducedAttempt(geo, cache, stop, full_address, outcome, io) ==
    LET fallback_address == FallbackAddress(stop.postal_code, stop.city)
        cached_fallback == get_coordinates(cache, fallback_address, io.read_ok)
    IN  IF cached_fallback.hit
        THEN Resolved(geo.session_cache, cached_fallback.cache, full_address,
                      cached_fallback.coords, "reduced_cache", 1)
        ELSE IF outcome.kind = "found"
        THEN Resolved(geo.session_cache,
                      store_coordinates(
                          store_coordinates(cache, full_address, outcome.coords, io.write_ok),
                          fallback_address, outcome.coords, io.write_ok),
                      full_address, outcome.coords, "reduced_geocoded", 2)
        ELSE IF outcome.kind = "empty"
        THEN RegionalFallback(geo, cache, stop.postal_code, None, 2)
        ELSE GeocoderRaised(geo, cache, stop.postal_code, outcome.kind, 2)

(***************************************************************************)
(* geocode_address.  geo holds session_cache and geocoding_cache; script   *)
(* is the provider's answer to the full address and to the reduced one.    *)
(***************************************************************************)
geocode_address(geo, stop, script, io) ==
    LET full_address == FullAddress(stop.street, stop.postal_code, stop.city)
        cached_coords == get_coordinates(geo.geocoding_cache, full_address, io.read_ok)
    IN  IF SessionLookup(geo.session_cache, full_address)
        THEN [session |-> geo.session_cache, cache |-> geo.geocoding_cache,
              ret |-> geo.session_cache[full_address], raised |-> None,
              tier |-> "session", regional |-> None, caught |-> None, calls |-> 0]
        ELSE IF cached_coords.hit
        THEN Resolved(geo.session_cache, cached_coords.cache, full_address,
                      cached_coords.coords, "address_cache", 0)
        ELSE IF script[1].kind = "found"
        THEN Resolved(geo.session_cache,
                      store_coordinates(geo.geocoding_cache, full_address,
                                        script[1].coords, io.write_ok),
                      full_address, script[1].coords, "geocoded", 1)
        ELSE IF script[1].kind # "empty"
        THEN GeocoderRaised(geo, geo.geocoding_cache, stop.postal_code, script[1].kind, 1)
        ELSE IF stop.postal_code # <<>> /\ stop.city # <<>>
        THEN ReducedAttempt(geo, geo.geocoding_cache, stop, full_address, script[2], io)
        ELSE RegionalFallback(geo, geo.geocoding_cache, stop.postal_code, None, 1)

\* create_distance_matrix, lines 743-754: the cache pre-check of one stop,
\* then get_coordinates(stop)
geocode_stop(geo, stop, script, io) ==
    LET pre == get_coordinates(geo.geocoding_cache,
                   MatrixAddress(stop.street, stop.postal_code, stop.city), io.read_ok)
    IN  geocode_address([geo EXCEPT !.geocoding_cache = pre.cache], stop, script, io)

-----------------------------------------------------------------------------
(***************************************************************************)
(* SpecGeo: one instance resolves the addresses of a few stops, with every *)
(* answer of the geocoder and of the cache storage, and clears its caches. *)
(***************************************************************************)
MaxUseCount == 2        \* the use counts stay at or below this

StopMain ==             \* a street address in a region of the table
    [street |-> <<"A">>, postal_code |-> <<"8", "0", "3", "3", "1">>, city |-> <<"M">>]

StopOdd ==              \* no street, a postal code that is no number, no city
    [street |-> <<"N", "a", "N">>, postal_code |-> <<"8", "0", "3", "3", "x">>, city |-> <<>>]

GeoStops == {StopMain, StopOdd}

\* the geocoder's answers to the full address and, if it is asked, to the
\* reduced address (the street location, the centre of the town)
GeoScripts ==
    {<<o1, o2>> \in GeoOutcomes(Marienplatz) \X GeoOutcomes(Altstadt) :
        o1.kind # "empty" => o2.kind = "empty"}

Geo == [session_cache |-> session_cache, geocoding_cache |-> geocoding_cache]

GeoObserved(op, stop, r, io) ==
    [op |-> op, stop |-> stop,
     address |-> FullAddress(stop.street, stop.postal_code, stop.city),
     ret |-> r.ret, raised |-> r.raised, tier |-> r.tier, regional |-> r.regional,
     caught |-> r.caught, calls |-> r.calls]

GeoStep(op, stop, r, io) ==
    /\ \A h \in DOMAIN r.cache : r.cache[h].success_count <= MaxUseCount
    /\ session_cache' = r.session
    /\ geocoding_cache' = r.cache
    /\ geo_out' = GeoObserved(op, stop, r, io)
    /\ UNCHANGED <<distVars, optVars, multiVars>>

\* RouteOptimizer.get_coordinates(stop_data)
Resolve(stop, script, io) ==
    \E r \in {geocode_address(Geo, stop, script, io)} : GeoStep("resolve", stop, r, io)

\* one stop of the geocoding loop of create_distance_matrix
GeocodeStop(stop, script, io) ==
    \E r \in {geocode_stop(Geo, stop, script, io)} : GeoStep("geocode_stop", stop, r, io)

InitGeo ==
    /\ session_cache = <<>>
    /\ geocoding_cache = <<>>
    /\ geo_out = NoCall
    /\ distance_matrix = <<>>
    /\ opt_result = NoCall
    /\ batch = NoCall
    /\ batch_out = NoCall
    /\ resolvers = NoCall
    /\ ors_client = TRUE
    /\ last_api_call = 0
    /\ api_calls_this_minute = 0
    /\ minute_start = 0
    /\ routing_cache = <<>>
    /\ now = StartTime
    /\ latency = 0
    /\ call_log = {}
    /\ dist_out = NoCall

NextGeo ==
    \/ \E stop \in GeoStops, script \in GeoScripts, io \in IoOutcomes :
            Resolve(stop, script, io)
    \/ \E stop \in GeoStops, script \in GeoScripts, io \in IoOutcomes :
            GeocodeStop(stop, script, io)
    \/ ClearSessionCache
    \/ \E db_ok \in BOOLEAN : ClearRoutingCache(db_ok)
    \/ \E db_ok \in BOOLEAN : ClearAllCaches(db_ok)

SpecGeo == InitGeo /\ [][NextGeo]_vars

Resolving(out) == out.op \in {"resolve", "geocode_stop"}

\* C3 (as stated): every resolve call for an address returns the coordinate
\* that the previous call for the same address returned, hence the coordinate
\* of the first call, whatever the geocoder answered in between.
C3_Original ==
    [][(Resolving(geo_out) /\ Resolving(geo_out') /\ geo_out'.address = geo_out.address)
            => geo_out'.ret = geo_out.ret]_vars

\* C3 (amended): once a resolve call returned a coordinate taken from a cache or
\* from the geocoder (not the regional fallback), every later resolve call of
\* the instance for that address returns the same coordinate: such a result is
\* in the session cache after the call, a resolve call never changes an
\* existing session entry, and an address in the session cache resolves to its
\* entry.  (A regional-fallback result is not remembered.)
C3_StableOnceCached ==
    [][Resolving(geo_out') =>
          /\ geo_out'.address \in DOMAIN session_cache =>
                geo_out'.ret = session_cache[geo_out'.address]
          /\ geo_out'.tier # "regional" =>
                /\ geo_out'.address \in DOMAIN session_cache'
                /\ session_cache'[geo_out'.address] = geo_out'.ret
          /\ \A a \in DOMAIN session_cache :
                a \in DOMAIN session_cache' /\ session_cache'[a] = session_cache[a]]_vars

\* an address is answered from the session cache although the AddressCache
\* holds no entry for it (the write of the first result failed)
C3_Witness ==
    /\ Resolving(geo_out)
    /\ geo_out.tier = "session"
    /\ hash_address(geo_out.address) \notin DOMAIN geocoding_cache

\* C7: resolve never raises and always returns a coordinate pair.
C7_ResolveNeverRaises ==
    Resolving(geo_out) =>
        /\ geo_out.raised = None
        /\ geo_out.ret \in Int \X Int

\* the geocoder raised an unexpected exception and the postal code is no
\* number: the fixed default came back
C7_Witness ==
    /\ Resolving(geo_out)
    /\ geo_out.caught = "unexpected"
    /\ geo_out.regional = "error_default"
    /\ geo_out.ret = DefaultCoordinates

\* the resolution just made was answered from a cache for an address that the
\* AddressCache held
CachedHit ==
    /\ Resolving(geo_out')
    /\ geo_out'.tier \in {"session", "address_cache"}
    /\ hash_address(geo_out'.address) \in DOMAIN geocoding_cache

\* C13 (as stated): every resolution of an address that is already cached
\* increments the use count of its AddressCache entry and leaves the stored
\* coordinate unchanged, also when the answer comes from the session cache.
C13_Original ==
    [][CachedHit =>
          LET h == hash_address(geo_out'.address)
          IN  /\ geocoding_cache'[h].coords = geocoding_cache[h].coords
              /\ geocoding_cache'[h].success_count > geocoding_cache[h].success_count]_vars

\* C13 (amended): a resolve call answered from the AddressCache increments the
\* use count of the entry by one and changes nothing else in the AddressCache;
\* a resolve call answered from the session cache leaves the AddressCache as
\* it is, use count included.  Neither changes a stored coordinate, also when
\* the call comes from create_distance_matrix.
C13_CountsAddressCacheHits ==
    [][CachedHit =>
          LET h == hash_address(geo_out'.address)
          IN  /\ (geo_out'.op = "resolve" /\ geo_out'.tier = "address_cache") =>
                    geocoding_cache' =
                        [geocoding_cache EXCEPT ![h].success_count = @ + 1]
              /\ (geo_out'.op = "resolve" /\ geo_out'.tier = "session") =>
                    geocoding_cache' = geocoding_cache
              /\ DOMAIN geocoding_cache' = DOMAIN geocoding_cache
              /\ \A k \in DOMAIN geocoding_cache :
                    /\ geocoding_cache'[k].coords = geocoding_cache[k].coords
                    /\ geocoding_cache'[k].success_count >=
                           geocoding_cache[k].success_count]_vars

\* a resolve call answered from the AddressCache: the entry is at use count 2
C13_Witness ==
    /\ geo_out.op = "resolve"
    /\ geo_out.tier = "address_cache"
    /\ geocoding_cache[hash_address(geo_out.address)].success_count = 2

\* C10: no operation removes an entry of the AddressCache: every clear
\* operation leaves the cache as it is, and a resolve call only adds entries or
\* rewrites the entry of the address it looked up.
C10_AddressCacheNeverShrinks ==
    [][/\ DOMAIN geocoding_cache \subseteq DOMAIN geocoding_cache'
       /\ geo_out'.op \in {"clear_session_cache", "clear_routing_cache", "clear_all_caches"}
              => geocoding_cache' = geocoding_cache]_vars

\* clear_all_caches has run and the AddressCache holds the addresses of both
\* stops, one of them stored under its reduced address
C10_Witness ==
    /\ geo_out.op = "clear_all_caches"
    /\ session_cache = <<>>
    /\ Cardinality(DOMAIN geocoding_cache) >= 2

\* C36: every value of the session cache and of the AddressCache is a
\* coordinate the geocoder returned; a resolve that ends in the regional or
\* default coordinate has asked the geocoder, returns a coordinate of the
\* postal table and leaves the address out of the session cache, and a
\* resolve answered without the geocoder returns a geocoder coordinate.
C36_FallbackNeverCached ==
    /\ \A a \in DOMAIN session_cache : session_cache[a] \in {Marienplatz, Altstadt}
    /\ \A h \in DOMAIN geocoding_cache :
          geocoding_cache[h].coords \in {Marienplatz, Altstadt}
    /\ (Resolving(geo_out) /\ geo_out.tier = "regional") =>
          /\ geo_out.calls >= 1
          /\ geo_out.ret = get_coordinates_from_postal(geo_out.stop.postal_code).coords
          /\ geo_out.ret \notin {Marienplatz, Altstadt}
          /\ geo_out.address \notin DOMAIN session_cache
    /\ (Resolving(geo_out) /\ geo_out.tier # "regional") =>
          /\ geo_out.ret \in {Marienplatz, Altstadt}
          /\ session_cache[geo_out.address] = geo_out.ret

\* the address sits in no cache after a resolve that fell back to the postal
\* table, while the caches hold the other stop
C36_Witness ==
    /\ Resolving(geo_out)
    /\ geo_out.tier = "regional"
    /\ geo_out.stop = StopMain
    /\ session_cache # <<>>
    /\ geocoding_cache # <<>>
    /\ hash_address(geo_out.address) \notin DOMAIN geocoding_cache


-----------------------------------------------------------------------------
(***************************************************************************)
(* optimize_multiple_routes.  groups is the sequence of route groups in    *)
(* the order of groupby (by route id), each group given by the matrix      *)
(* create_distance_matrix builds for its stops.                            *)
(***************************************************************************)
SingleStopResult ==
    [raised |-> None,
     original_order |-> <<0>>, optimized_order |-> <<0>>,
     original_distance |-> 0, optimized_distance |-> 0, distance_saved |-> 0,
     algorithm_used |-> "No optimization needed", stops_count |-> 1]

\* the for loop over the groups: an exception of optimize_route leaves the loop
\* and the function
RECURSIVE RouteLoop(_, _, _, _)
RouteLoop(groups, k, algorithm, acc) ==
    IF k > Len(groups) THEN acc
    ELSE IF MatrixSize(groups[k]) > 1
    THEN LET route_result == optimize_route(groups[k], algorithm)
         IN  IF route_result.raised # None
             THEN [acc EXCEPT !.raised = route_result.raised]
             ELSE RouteLoop(groups, k + 1, algorithm,
                     [acc EXCEPT !.results = Append(@, route_result),
                                 !.total_distance_saved = @ + route_result.distance_saved,
                                 !.total_stops = @ + route_result.stops_count])
    ELSE RouteLoop(groups, k + 1, algorithm,
                   [acc EXCEPT !.results = Append(@, SingleStopResult)])

optimize_multiple_routes(groups, algorithm) ==
    LET done == RouteLoop(groups, 1, algorithm,
                    [raised |-> None, results |-> <<>>,
                     total_distance_saved |-> 0, total_stops |-> 0])
        optimized_routes == {k \in DOMAIN done.results : done.results[k].stops_count > 1}
    IN  IF done.raised # None
        THEN [raised |-> done.raised, routes |-> <<>>, summary |-> None]
        ELSE [raised |-> None,
              routes |-> done.results,
              summary |-> [total_routes |-> Len(done.results),
                           optimized_routes |-> Cardinality(optimized_routes),
                           total_stops |-> done.total_stops,
                           total_distance_saved |-> Round2(done.total_distance_saved),
                           algorithm_used |-> algorithm]]

-----------------------------------------------------------------------------
(***************************************************************************)
(* SpecMulti: a table of up to MaxGroups route groups of 1..MaxGroupSize   *)
(* stops on the line; each action is one optimize_multiple_routes call.    *)
(***************************************************************************)
MaxGroups == 2
MaxGroupSize == 3

GroupCoords == {0, 1, 3}

GroupMatrices ==
    {LineMatrix(pos, FALSE) : pos \in UNION {[0..(n - 1) -> GroupCoords] : n \in 1..MaxGroupSize}}

Batches == UNION {[1..g -> GroupMatrices] : g \in 1..MaxGroups}

InitMulti ==
    /\ \E groups \in Batches : batch = [op |-> "table", groups |-> groups]
    /\ batch_out = NoCall
    /\ resolvers = NoCall
    /\ distance_matrix = <<>>
    /\ opt_result = NoCall
    /\ ors_client = FALSE
    /\ last_api_call = 0
    /\ api_calls_this_minute = 0
    /\ minute_start = 0
    /\ routing_cache = <<>>
    /\ now = 0
    /\ latency = 0
    /\ call_log = {}
    /\ dist_out = NoCall
    /\ session_cache = <<>>
    /\ geocoding_cache = <<>>
    /\ geo_out = NoCall

OptimizeMultipleRoutes(algorithm) ==
    /\ batch_out' = [op |-> "optimize_multiple_routes", algorithm |-> algorithm,
                     result |-> optimize_multiple_routes(batch.groups, algorithm)]
    /\ UNCHANGED <<batch, resolvers, optVars, distVars, geoVars>>

NextMulti == \E algorithm \in AlgorithmNames : OptimizeMultipleRoutes(algorithm)

SpecMulti == InitMulti /\ [][NextMulti]_vars

\* C5 (as stated): one route's failure does not abort the batch: the call
\* returns a bundle, and every route group whose optimization does not raise
\* (a single stop, or a known algorithm) has its result in it.
C5_Original ==
    batch_out.op = "optimize_multiple_routes" =>
        /\ batch_out.result.raised = None
        /\ \A k \in DOMAIN batch.groups :
              (MatrixSize(batch.groups[k]) <= 1 \/ batch_out.algorithm \in Algorithms)
                  => \E j \in DOMAIN batch_out.result.routes :
                        batch_out.result.routes[j].stops_count = MatrixSize(batch.groups[k])

\* the number of stops of the table: the sum of the sizes of the groups
RECURSIVE StopsIn(_)
StopsIn(groups) ==
    IF groups = <<>> THEN 0 ELSE MatrixSize(Head(groups)) + StopsIn(Tail(groups))

BundleReturned ==
    /\ batch_out.op = "optimize_multiple_routes"
    /\ batch_out.result.raised = None

\* C17 (as stated): the summary reports total_stops as the number of stops of
\* all route groups, single-stop groups included, total_routes as the number
\* of groups and optimized_routes as the number of groups with more than one
\* stop.
C17_Original ==
    BundleReturned =>
        /\ batch_out.result.summary.total_stops = StopsIn(batch.groups)
        /\ batch_out.result.summary.total_routes = Len(batch.groups)
        /\ batch_out.result.summary.optimized_routes =
              Cardinality({k \in DOMAIN batch.groups : MatrixSize(batch.groups[k]) > 1})

-----------------------------------------------------------------------------
(***************************************************************************)
(* create_distance_matrix and optimize_route on the stops themselves.      *)
(* self is the record of the limiter fields, the routing cache and the     *)
(* clock, geo the record of the two address caches.  env is what the       *)
(* outside does during the call: the geocoder's answers (script), the      *)
(* routing provider's answer (response) and the cache storage (io).        *)
(***************************************************************************)

\* the first loop: the cache pre-check and get_coordinates of every stop
RECURSIVE GeocodeLoop(_, _, _, _)
GeocodeLoop(acc, stops, k, env) ==
    IF k > Len(stops) THEN acc
    ELSE LET Body(a) ==
                 CHOOSE out \in
                     {GeocodeLoop([geo |-> [session_cache |-> r.session,
                                            geocoding_cache |-> r.cache],
                                   coords |-> Append(a.coords, r.ret),
                                   raised |-> r.raised,
                                   lookups |-> a.lookups + 1],
                                  stops, k + 1, env) :
                         r \in {geocode_stop(a.geo, stops[k], env.script, env.io)}} : TRUE
         IN  CHOOSE out \in {Body(a) : a \in {acc}} : TRUE

\* a matrix that starts with 1 km everywhere
UnitMatrix(n) == [i \in 0..(n - 1) |-> [j \in 0..(n - 1) |-> 1000]]

\* matrix = [[0.0] * n for _ in range(n)]
ZeroMatrix(n) == [i \in 0..(n - 1) |-> [j \in 0..(n - 1) |-> 0]]

\* the second loop, pair number k = i * n + j: matrix[i][j] = distance
RECURSIVE PairLoop(_, _, _, _)
PairLoop(acc, coords, k, env) ==
    LET n == Len(coords)
        i == k \div n
        j == k % n
        Body(a) ==
            CHOOSE out \in
                {PairLoop([self |-> r.self,
                           matrix |-> [a.matrix EXCEPT ![i][j] = r.ret],
                           tiers |-> a.tiers \cup {r.tier},
                           distances |-> a.distances + 1,
                           requests |-> a.requests + (IF r.external THEN 1 ELSE 0)],
                          coords, k + 1, env) :
                    r \in {calculate_distance(a.self, coords[i + 1], coords[j + 1],
                                              env.response, env.io)}} : TRUE
    IN  IF k >= n * n THEN acc
        ELSE IF i = j THEN PairLoop(acc, coords, k + 1, env)
        ELSE CHOOSE out \in {Body(a) : a \in {acc}} : TRUE

create_distance_matrix(self, geo, stops, env) ==
    LET Fill(located) ==
            CHOOSE out \in
                {[self |-> filled.self, geo |-> located.geo, matrix |-> filled.matrix,
                  coords |-> located.coords, tiers |-> filled.tiers,
                  lookups |-> located.lookups, distances |-> filled.distances,
                  requests |-> filled.requests] :
                    filled \in {PairLoop([self |-> self, matrix |-> ZeroMatrix(Len(stops)),
                                          tiers |-> {}, distances |-> 0, requests |-> 0],
                                         located.coords, 0, env)}} : TRUE
    IN  CHOOSE out \in
            {Fill(located) :
                located \in {GeocodeLoop([geo |-> geo, coords |-> <<>>, raised |-> None,
                                          lookups |-> 0], stops, 1, env)}} : TRUE

\* get_route_segments(stops, route_order): one segment per consecutive pair of
\* the order (none for an order of at most one stop).  A cached route with a
\* geometry gives a 'road' segment with the cached distance; without one (a
\* miss, a failed read, a row without geometry) the segment is the straight
\* line with the air distance.
get_route_segments(cache, coords, route_order, read_ok) ==
    [p \in 1..(Len(route_order) - 1) |->
        LET from_coords == coords[route_order[p] + 1]
            to_coords == coords[route_order[p + 1] + 1]
            cached_route == get_route(cache, from_coords, to_coords, read_ok)
            road == cached_route.hit /\ cached_route.entry.geometry # None
        IN  [from |-> [index |-> route_order[p], coordinates |-> from_coords,
                       stop_number |-> p],
             to |-> [index |-> route_order[p + 1], coordinates |-> to_coords,
                     stop_number |-> p + 1],
             distance_km |-> IF road THEN cached_route.entry.distance_km
                             ELSE calculate_air_distance(from_coords, to_coords),
             geometry |-> IF road THEN cached_route.entry.geometry
                          ELSE <<from_coords, to_coords>>,
             type |-> IF road THEN "road" ELSE "air"]]

\* nothing was looked up, computed or requested
NoWork == [lookups |-> 0, distances |-> 0, requests |-> 0, tiers |-> {}]

\* an early return for the empty list only
ReturnsEarlyWhenEmpty(stops) == Len(stops) < 1

\* if len(stops) <= 1: return the trivial result
ReturnsEarly(stops) == Len(stops) <= 1

\* optimize_route(stops, algorithm): the trivial result, or the matrix of the
\* stops, then the algorithm on it, then the segments of the two orders read
\* from the routing cache as the matrix left it
optimize_stops(self, geo, stops, algorithm, env) ==
    LET Segments(built, route_order) ==
            get_route_segments(built.self.routing_cache, built.coords, route_order,
                               env.io.read_ok)
        Result(built) ==
            CHOOSE out \in
                {IF ordered.raised # None THEN ordered
                 ELSE [raised |-> None,
                       original_order |-> ordered.original_order,
                       optimized_order |-> ordered.optimized_order,
                       original_distance |-> ordered.original_distance,
                       optimized_distance |-> ordered.optimized_distance,
                       distance_saved |-> ordered.distance_saved,
                       algorithm_used |-> ordered.algorithm_used,
                       stops_count |-> ordered.stops_count,
                       original_segments |-> Segments(built, ordered.original_order),
                       optimized_segments |-> Segments(built, ordered.optimized_order)] :
                    ordered \in {optimize_route(built.matrix, algorithm)}} : TRUE
    IN  IF ReturnsEarly(stops)
        THEN [self |-> self, geo |-> geo, matrix |-> None, coords |-> <<>>,
              work |-> NoWork, result |-> TrivialResult(Len(stops), algorithm)]
        ELSE CHOOSE out \in
                 {[self |-> built.self, geo |-> built.geo, matrix |-> built.matrix,
                   coords |-> built.coords,
                   work |-> [lookups |-> built.lookups, distances |-> built.distances,
                             requests |-> built.requests, tiers |-> built.tiers],
                   result |-> Result(built)] :
                     built \in {create_distance_matrix(self, geo, stops, env)}} : TRUE

\* a loop that hands every group to optimize_route
HasSeveralStopsAlways(stops) == TRUE

\* if len(stops) > 1:  # Only optimize routes with multiple stops
HasSeveralStops(stops) == Len(stops) > 1

\* optimize_multiple_routes on the stops of the groups: the loop over the
\* groups, which hands a group to optimize_route only if it has several stops
RECURSIVE GroupLoop(_, _, _, _, _)
GroupLoop(acc, groups, k, algorithm, env) ==
    LET Optimized(a) ==
            CHOOSE out \in
                {GroupLoop(IF r.result.raised # None
                           THEN [a EXCEPT !.self = r.self, !.geo = r.geo,
                                          !.raised = r.result.raised,
                                          !.work = Append(@, r.work)]
                           ELSE [a EXCEPT !.self = r.self, !.geo = r.geo,
                                          !.results = Append(@, r.result),
                                          !.work = Append(@, r.work),
                                          !.total_distance_saved = @ + r.result.distance_saved,
                                          !.total_stops = @ + r.result.stops_count],
                           groups, k + 1, algorithm, env) :
                    r \in {optimize_stops(a.self, a.geo, groups[k], algorithm, env)}} : TRUE
        Single(a) ==
            GroupLoop([a EXCEPT !.results = Append(@, SingleStopResult),
                                !.work = Append(@, NoWork)],
                      groups, k + 1, algorithm, env)
        Body(a) ==
            IF k > Len(groups) \/ a.raised # None THEN a
            ELSE IF HasSeveralStops(groups[k]) THEN Optimized(a)
            ELSE Single(a)
    IN  CHOOSE out \in {Body(a) : a \in {acc}} : TRUE

optimize_multiple_stops(self, geo, groups, algorithm, env) ==
    LET Bundle(done) ==
            [self |-> done.self, geo |-> done.geo, raised |-> done.raised,
             work |-> done.work,
             routes |-> IF done.raised # None THEN <<>> ELSE done.results,
             summary |-> IF done.raised # None THEN None
                         ELSE [total_routes |-> Len(done.results),
                               optimized_routes |->
                                   Cardinality({k \in DOMAIN done.results :
                                                   done.results[k].stops_count > 1}),
                               total_stops |-> done.total_stops,
                               total_distance_saved |-> Round2(done.total_distance_saved),
                               algorithm_used |-> algorithm]]
    IN  CHOOSE out \in
            {Bundle(done) :
                done \in {GroupLoop([self |-> self, geo |-> geo, raised |-> None,
                                     results |-> <<>>, work |-> <<>>,
                                     total_distance_saved |-> 0, total_stops |-> 0],
                                    groups, 1, algorithm, env)}} : TRUE

-----------------------------------------------------------------------------
(***************************************************************************)
(* SpecRoute: one optimize_route or optimize_multiple_routes call on the   *)
(* stops themselves.  The cache files are empty or hold what an earlier    *)
(* request left, the instance has a routing client or none, and its        *)
(* limiter is fresh or has admitted 34 requests in the current clock       *)
(* minute.  The request history call_log is not kept here.                 *)
(***************************************************************************)
MaxRouteStops == 2

StopLists == UNION {[1..n -> GeoStops] : n \in 0..MaxRouteStops}

GroupLists ==
    {<<StopMain>>, <<StopOdd>>, <<StopMain, StopOdd>>, <<StopOdd, StopMain, StopMain>>}

StopBatches == UNION {[1..g -> GroupLists] : g \in 1..MaxGroups}

\* the geocoder finds the address, or only the reduced one, or raises; the
\* routing provider answers with a route, with nothing, or raises; the cache
\* storage works or fails
RouteEnvs ==
    [script : {<<[kind |-> "found", coords |-> Marienplatz], [kind |-> "empty"]>>,
               <<[kind |-> "empty"], [kind |-> "found", coords |-> Altstadt]>>,
               <<[kind |-> "unexpected"], [kind |-> "empty"]>>},
     response : {RouteWithGeometry, [kind |-> "empty"], [kind |-> "exception"]},
     io : {IoOk, [read_ok |-> FALSE, write_ok |-> FALSE]}]

RouteAlgorithms == {"both", "fastest"}

InitRoute ==
    /\ ors_client \in BOOLEAN
    /\ now = DistStart
    /\ latency = 0
    /\ \/ /\ last_api_call = 0
          /\ api_calls_this_minute = 0
          /\ minute_start = 0
          /\ call_log = {}
       \/ /\ ors_client
          /\ last_api_call = DistStart
          /\ api_calls_this_minute = RateLimit - 1
          /\ minute_start = DistStart \div Minute
          /\ call_log = {}
    /\ routing_cache \in
          {<<>>, store_route(<<>>, Marienplatz, DefaultCoordinates, RouteWithoutGeometry, TRUE)}
    /\ session_cache = <<>>
    /\ geocoding_cache \in
          {<<>>, store_coordinates(<<>>, FullAddress(StopMain.street, StopMain.postal_code,
                                                    StopMain.city), Marienplatz, TRUE)}
    /\ dist_out = NoCall
    /\ geo_out = NoCall
    /\ distance_matrix = <<>>
    /\ opt_result = NoCall
    /\ batch = NoCall
    /\ batch_out = NoCall
    /\ resolvers = NoCall

\* the fields of the limiter and the contents of the three caches
InstanceState ==
    <<last_api_call, api_calls_this_minute, minute_start,
      routing_cache, session_cache, geocoding_cache>>

\* the fields of the instance and the cache files after a call
RouteState(r) ==
    /\ ors_client' = r.self.ors_client
    /\ last_api_call' = r.self.last_api_call
    /\ api_calls_this_minute' = r.self.api_calls_this_minute
    /\ minute_start' = r.self.minute_start
    /\ routing_cache' = r.self.routing_cache
    /\ now' = r.self.now
    /\ session_cache' = r.geo.session_cache
    /\ geocoding_cache' = r.geo.geocoding_cache
    /\ UNCHANGED <<latency, call_log, dist_out, geo_out>>

\* one optimize_route(stops, algorithm) call, the only call of the behaviour
OptimizeStops(stops, algorithm, env) ==
    /\ opt_result = NoCall
    /\ batch_out = NoCall
    /\ \E r \in {optimize_stops(Self, Geo, stops, algorithm, env)} :
        /\ RouteState(r)
        /\ distance_matrix' = r.matrix
        /\ opt_result' = [op |-> "optimize_route", algorithm |-> algorithm,
                          stops |-> stops, env |-> env, coords |-> r.coords,
                          work |-> r.work, result |-> r.result]
        /\ UNCHANGED multiVars

\* one optimize_multiple_routes(df, ...) call on the table of the groups
OptimizeStopGroups(groups, algorithm, env) ==
    /\ opt_result = NoCall
    /\ batch_out = NoCall
    /\ \E r \in {optimize_multiple_stops(Self, Geo, groups, algorithm, env)} :
        /\ RouteState(r)
        /\ batch' = [op |-> "table", groups |-> groups]
        /\ batch_out' = [op |-> "optimize_multiple_routes", algorithm |-> algorithm,
                         work |-> r.work,
                         result |-> [raised |-> r.raised, routes |-> r.routes,
                                     summary |-> r.summary]]
        /\ UNCHANGED <<optVars, resolvers>>

NextRoute ==
    \/ \E stops \in StopLists, algorithm \in AlgorithmNames, env \in RouteEnvs :
           OptimizeStops(stops, algorithm, env)
    \/ \E groups \in StopBatches, algorithm \in RouteAlgorithms, env \in RouteEnvs :
           OptimizeStopGroups(groups, algorithm, env)

SpecRoute == InitRoute /\ [][NextRoute]_vars

\* C12: optimize_route with an empty stop list or a single stop returns the
\* identity order ([] or [0]) as original_order and optimized_order and 0 as
\* original_distance, optimized_distance and distance_saved, and builds no
\* distance matrix: no address is looked up, no distance is computed, no
\* routing request is made, and the caches and the limiter stay as they were.
C12_TrivialWithoutMatrix ==
    [][(opt_result'.op = "optimize_route" /\ Len(opt_result'.stops) <= 1) =>
          /\ opt_result'.work = NoWork
          /\ UNCHANGED InstanceState
          /\ opt_result'.result.raised = None
          /\ opt_result'.result.original_order = Range0(Len(opt_result'.stops))
          /\ opt_result'.result.optimized_order = Range0(Len(opt_result'.stops))
          /\ opt_result'.result.original_distance = 0
          /\ opt_result'.result.optimized_distance = 0
          /\ opt_result'.result.distance_saved = 0
          /\ distance_matrix' = None]_vars

\* a single stop whose address is in the AddressCache, on an instance with a
\* routing client: the trivial result came back
C12_Witness ==
    /\ opt_result.op = "optimize_route"
    /\ opt_result.stops = <<StopMain>>
    /\ opt_result.result.optimized_order = <<0>>
    /\ ors_client
    /\ geocoding_cache # <<>>

\* the result of group k of the table is the fixed single-stop result
IsSingleStopResult(route_result) ==
    /\ route_result.stops_count = 1
    /\ route_result.original_order = <<0>>
    /\ route_result.optimized_order = <<0>>
    /\ route_result.original_distance = 0
    /\ route_result.optimized_distance = 0
    /\ route_result.distance_saved = 0
    /\ route_result.algorithm_used = "No optimization needed"

\* C18: in optimize_multiple_routes a route group with exactly one stop is
\* never passed to the optimizer (no address lookup, no matrix, no routing
\* request; a table of single-stop groups leaves caches and limiter as they
\* were) and its result has stops_count 1, the order [0], all distances 0 and
\* algorithm_used 'No optimization needed'; a group with more than one stop is
\* passed to optimize_route (all its stops are looked up, all ordered pairs get
\* a distance).  In a call that raises, this holds of the groups up to the one
\* that raised.
C18_SingleStopNeverOptimized ==
    [][batch_out'.op = "optimize_multiple_routes" =>
          LET groups == batch'.groups
              work == batch_out'.work
              routes == batch_out'.result.routes
          IN  /\ \A k \in DOMAIN work :
                    IF Len(groups[k]) = 1
                    THEN work[k] = NoWork
                    ELSE /\ work[k].lookups = Len(groups[k])
                         /\ work[k].distances = Len(groups[k]) * (Len(groups[k]) - 1)
              /\ batch_out'.result.raised = None =>
                    /\ DOMAIN work = DOMAIN groups
                    /\ DOMAIN routes = DOMAIN groups
                    /\ \A k \in DOMAIN groups :
                          IF Len(groups[k]) = 1
                          THEN IsSingleStopResult(routes[k])
                          ELSE /\ routes[k].stops_count = Len(groups[k])
                               /\ routes[k].algorithm_used = AlgorithmUsed(batch_out'.algorithm)
              /\ (\A k \in DOMAIN groups : Len(groups[k]) = 1) =>
                    UNCHANGED InstanceState]_vars

\* a table of a single-stop group and a group of two stops: the bundle holds
\* the fixed result for the first and an optimized route for the second
C18_Witness ==
    /\ batch_out.op = "optimize_multiple_routes"
    /\ batch_out.result.raised = None
    /\ Len(batch.groups) = 2
    /\ Len(batch.groups[1]) = 1
    /\ Len(batch.groups[2]) = 2
    /\ batch_out.work[1] = NoWork
    /\ batch_out.work[2].lookups = 2
    /\ session_cache # <<>>

\* C20: the matrix create_distance_matrix returns for n stops is n x n, with
\* matrix[i][i] = 0 and matrix[i][j] >= 0, whether an entry came from the
\* routing cache, from a routing request or from the great-circle fallback
\* (the provider's distances being lengths, hence not negative).
C20_MatrixWellFormed ==
    (opt_result.op = "optimize_route" /\ Len(opt_result.stops) >= 2) =>
        LET n == Len(opt_result.stops)
        IN  /\ DOMAIN distance_matrix = 0..(n - 1)
            /\ \A i \in 0..(n - 1) :
                  /\ DOMAIN distance_matrix[i] = 0..(n - 1)
                  /\ distance_matrix[i][i] = 0
                  /\ \A j \in 0..(n - 1) :
                        distance_matrix[i][j] \in Nat
            /\ opt_result.work.tiers \subseteq
                  {"cache", "road"} \cup FallbackTiers

\* a matrix with one entry from the routing cache and one from a routing
\* request
C20_Witness ==
    /\ opt_result.op = "optimize_route"
    /\ Len(opt_result.stops) >= 2
    /\ {"cache", "road"} \subseteq opt_result.work.tiers

\* C35 (as stated): for every result of optimize_route on at least 2 stops, in
\* every state of the routing cache and of the rate limiter, optimized_segments
\* has n-1 segments that chain the optimized order, and their distance_km add
\* up to optimized_distance (rounded to 2 decimals as the total is); the same
\* holds for original_segments and original_distance.
C35_Original ==
    (/\ opt_result.op = "optimize_route"
     /\ Len(opt_result.stops) >= 2
     /\ opt_result.result.raised = None) =>
        LET n == Len(opt_result.stops)
            RECURSIVE total_km(_, _)
            total_km(segments, p) ==
                IF p > Len(segments) THEN 0
                ELSE segments[p].distance_km + total_km(segments, p + 1)
            Chained(segments, route_order, distance) ==
                /\ Len(segments) = n - 1
                /\ \A p \in 1..(n - 1) :
                      /\ segments[p].from.index = route_order[p]
                      /\ segments[p].to.index = route_order[p + 1]
                /\ \A p \in 1..(n - 2) : segments[p].to = segments[p + 1].from
                /\ Round2(total_km(segments, 1)) = distance
        IN  /\ Chained(opt_result.result.optimized_segments,
                       opt_result.result.optimized_order,
                       opt_result.result.optimized_distance)
            /\ Chained(opt_result.result.original_segments,
                       opt_result.result.original_order,
                       opt_result.result.original_distance)

\* C32 (as stated): when every lookup and every store of the persistent caches
\* fails, optimize_route raises nothing of its own and returns the result it
\* would return with empty cache files whose storage works.
C32_Original ==
    [][(/\ opt_result'.op = "optimize_route"
        /\ ~opt_result'.env.io.read_ok
        /\ ~opt_result'.env.io.write_ok) =>
            \E dry \in {optimize_stops([Self EXCEPT !.routing_cache = <<>>],
                                       [Geo EXCEPT !.geocoding_cache = <<>>],
                                       opt_result'.stops, opt_result'.algorithm,
                                       [opt_result'.env EXCEPT !.io = IoOk])} :
                opt_result'.result = dry.result]_vars

\* C32 (amended): when every lookup and every store of the persistent caches
\* fails, optimize_route raises nothing but the ValueError of an unknown
\* algorithm, leaves the cache files as they were, takes no distance from the
\* routing cache and returns the result it would return if the files were
\* empty and stayed empty during the call: every segment is an air segment.
\* The first stop is resolved, and the first pair is measured, as with empty
\* cache files whose storage works.
C32_FailedStorageIsEmptyCache ==
    [][(/\ opt_result'.op = "optimize_route"
        /\ ~opt_result'.env.io.read_ok
        /\ ~opt_result'.env.io.write_ok) =>
            \E dry \in {optimize_stops([Self EXCEPT !.routing_cache = <<>>],
                                       [Geo EXCEPT !.geocoding_cache = <<>>],
                                       opt_result'.stops, opt_result'.algorithm,
                                       [opt_result'.env EXCEPT !.io = IoOk])},
               lost \in {optimize_stops([Self EXCEPT !.routing_cache = <<>>],
                                        [Geo EXCEPT !.geocoding_cache = <<>>],
                                        opt_result'.stops, opt_result'.algorithm,
                                        opt_result'.env)} :
                /\ opt_result'.result.raised =
                      IF Len(opt_result'.stops) >= 2
                            /\ opt_result'.algorithm \notin Algorithms
                      THEN "ValueError" ELSE None
                /\ routing_cache' = routing_cache
                /\ geocoding_cache' = geocoding_cache
                /\ "cache" \notin opt_result'.work.tiers
                /\ opt_result'.result = lost.result
                /\ opt_result'.coords = lost.coords
                /\ distance_matrix' = lost.matrix
                /\ Len(opt_result'.stops) >= 2 =>
                      /\ opt_result'.coords[1] = dry.coords[1]
                      /\ opt_result'.coords = dry.coords =>
                            distance_matrix'[0][1] = dry.matrix[0][1]
                      /\ opt_result'.result.raised = None =>
                            /\ \A p \in DOMAIN opt_result'.result.optimized_segments :
                                  opt_result'.result.optimized_segments[p].type = "air"
                            /\ \A p \in DOMAIN opt_result'.result.original_segments :
                                  opt_result'.result.original_segments[p].type = "air"]_vars

\* the storage fails while the routing cache holds a route and the address
\* cache holds the first stop: the stop is geocoded again, the provider's
\* route is used for the matrix and the segment is an air segment
C32_Witness ==
    /\ opt_result.op = "optimize_route"
    /\ ~opt_result.env.io.read_ok
    /\ Len(opt_result.stops) = 2
    /\ opt_result.result.raised = None
    /\ routing_cache # <<>>
    /\ geocoding_cache # <<>>
    /\ opt_result.stops[1] = StopMain
    /\ opt_result.coords[1] = Marienplatz
    /\ opt_result.work.tiers = {"road"}
    /\ opt_result.result.optimized_segments[1].type = "air"
    /\ opt_result.result.optimized_distance > 0


    /\ \E i, j \in DOMAIN distance_matrix : distance_matrix[i][j] > 0

-----------------------------------------------------------------------------
(***************************************************************************)
(* SpecResolve: one get_coordinates(stop_data) call of an instance whose   *)
(* session cache and AddressCache hold what earlier calls left: nothing,   *)
(* the address of StopMain, or the reduced address "80331 M" that the      *)
(* resolution of another street of the town stored.  The cache storage     *)
(* works (its failures are in SpecGeo).  The stops cover a missing cell    *)
(* ('nan'), blanks, and postal codes of every shape.                       *)
(***************************************************************************)
ResolveStops ==
    LET Code(n) == [i \in 1..5 |-> Digits[((n \div (10 ^ (5 - i))) % 10) + 1]]
        Bare(p) == [street |-> <<>>, postal_code |-> p, city |-> <<>>]
    IN  GeoStops \cup
        {[StopMain EXCEPT !.street = <<"G">>],
         [StopMain EXCEPT !.street = <<"A", " ">>, !.postal_code = Nan],
         [StopMain EXCEPT !.street = <<" ">>, !.city = <<"N", "A", "N">>]} \cup
        {Bare(Code(n)) : n \in {80000, 80001, 80331, 80500, 80999, 81331, 30159, 1067, 99999}} \cup
        {Bare(p) : p \in {<<>>, <<"8">>, <<"8", "0">>, <<"8", "0", "3", "3">>,
                          <<"3", "0", "1", "5", "x">>, <<"8", "0", "-", "1", "2">>,
                          <<" ", "8", "0", "3", "3", "1", " ">>,
                          <<"8", "0", "3", "3", "1", "7">>}}

InitResolve ==
    /\ session_cache \in
          {<<>>, FullAddress(StopMain.street, StopMain.postal_code, StopMain.city)
                     :> Marienplatz}
    /\ geocoding_cache \in
          {<<>>,
           store_coordinates(<<>>, FullAddress(StopMain.street, StopMain.postal_code,
                                               StopMain.city), Marienplatz, TRUE),
           store_coordinates(
               store_coordinates(<<>>, FullAddress(<<"G">>, StopMain.postal_code,
                                                   StopMain.city), Altstadt, TRUE),
               FallbackAddress(StopMain.postal_code, StopMain.city), Altstadt, TRUE)}
    /\ geo_out = NoCall
    /\ distance_matrix = <<>>
    /\ opt_result = NoCall
    /\ batch = NoCall
    /\ batch_out = NoCall
    /\ resolvers = NoCall
    /\ ors_client = TRUE
    /\ last_api_call = 0
    /\ api_calls_this_minute = 0
    /\ minute_start = 0
    /\ routing_cache = <<>>
    /\ now = StartTime
    /\ latency = 0
    /\ call_log = {}
    /\ dist_out = NoCall

\* the one call of the behaviour
NextResolve ==
    \E stop \in ResolveStops, script \in GeoScripts :
        /\ geo_out = NoCall
        /\ Resolve(stop, script, IoOk)

SpecResolve == InitResolve /\ [][NextResolve]_vars

\* C21 (as stated): when the geocoding attempt for the full address raises,
\* times out or returns nothing, and postal code and city are present, resolve
\* looks the reduced address up in the AddressCache and, on a miss, asks the
\* geocoder once more with it; the regional fallback is used only after that.
C21_Original ==
    (/\ geo_out.op = "resolve"
     /\ geo_out.stop.postal_code # <<>>
     /\ geo_out.stop.city # <<>>
     /\ Lower(Strip(geo_out.stop.city)) # Nan
     /\ geo_out.tier \notin {"session", "address_cache", "geocoded"})
        => \/ geo_out.tier = "reduced_cache" /\ geo_out.calls = 1
           \/ geo_out.tier \in {"reduced_geocoded", "regional"} /\ geo_out.calls = 2

\* C22 (as stated): a coordinate that resolve got from the geocoder or from a
\* cached reduced address, for an address that was in neither cache, is in the
\* session cache and in the AddressCache under the full address after the call.
C22_Original ==
    [][(/\ geo_out'.op = "resolve"
        /\ geo_out'.address \notin DOMAIN session_cache
        /\ hash_address(geo_out'.address) \notin DOMAIN geocoding_cache
        /\ geo_out'.tier \in {"geocoded", "reduced_geocoded", "reduced_cache"})
          => /\ geo_out'.address \in DOMAIN session_cache'
             /\ session_cache'[geo_out'.address] = geo_out'.ret
             /\ hash_address(geo_out'.address) \in DOMAIN geocoding_cache'
             /\ geocoding_cache'[hash_address(geo_out'.address)].coords = geo_out'.ret]_vars

\* C23: resolve tries session cache, AddressCache, geocoder, regional fallback
\* in this order.  An address in the session cache is answered from it, and
\* then neither cache changes and the geocoder is not asked.  Otherwise an
\* address in the AddressCache is answered from it: the value is copied into
\* the session cache, the entry's use count goes up, the geocoder is not
\* asked.  Otherwise the geocoder is asked, and the regional fallback is used
\* only after the geocoder was asked.
C23_TierOrder ==
    [][geo_out'.op = "resolve" =>
          LET a == geo_out'.address
              h == hash_address(a)
          IN  IF a \in DOMAIN session_cache
              THEN /\ geo_out'.tier = "session"
                   /\ geo_out'.ret = session_cache[a]
                   /\ geo_out'.calls = 0
                   /\ session_cache' = session_cache
                   /\ geocoding_cache' = geocoding_cache
              ELSE IF h \in DOMAIN geocoding_cache
              THEN /\ geo_out'.tier = "address_cache"
                   /\ geo_out'.ret = geocoding_cache[h].coords
                   /\ geo_out'.calls = 0
                   /\ session_cache' = (a :> geo_out'.ret) @@ session_cache
                   /\ geocoding_cache' =
                          [geocoding_cache EXCEPT ![h].success_count = @ + 1]
              ELSE /\ geo_out'.tier \in
                          {"geocoded", "reduced_cache", "reduced_geocoded", "regional"}
                   /\ geo_out'.calls >= 1]_vars

\* the address of StopMain was answered from the AddressCache and is now in
\* the session cache
C23_Witness ==
    /\ geo_out.op = "resolve"
    /\ geo_out.stop = StopMain
    /\ geo_out.tier = "address_cache"
    /\ session_cache = (geo_out.address :> Marienplatz)

\* C24 (as stated): the full address is made of those of street, postal code
\* and city that are non-empty after trimming and are not 'nan' in any
\* letter case, trimmed, in this order, joined with ', ' and followed by
\* ', Germany'.
C24_Original ==
    geo_out.op = "resolve" =>
        LET Kept(x) == IF Strip(x) # <<>> /\ Lower(Strip(x)) # Nan
                       THEN <<Strip(x)>> ELSE <<>>
        IN  geo_out.address =
                Join(Kept(geo_out.stop.street) \o Kept(geo_out.stop.postal_code)
                         \o Kept(geo_out.stop.city), CommaSpace) \o GermanySuffix

\* C25 (as stated): when all geocoding attempts fail and the first two
\* characters of the postal code are a key of the regional table, the result is
\* within 0.05 degree of the table entry in latitude and in longitude and
\* differs from the result of every other 5-digit code of the prefix; the
\* fixed default is returned only when the prefix is not in the table.
C25_Original ==
    (geo_out.op = "resolve" /\ geo_out.tier = "regional") =>
        LET postal == Strip(geo_out.stop.postal_code)
            prefix == Slice(postal, 0, 2)
        IN  IF prefix \in DOMAIN postal_coordinates
            THEN /\ geo_out.regional \notin {"default", "error_default"}
                 /\ Abs(geo_out.ret[1] - postal_coordinates[prefix][1]) <= 500000
                 /\ Abs(geo_out.ret[2] - postal_coordinates[prefix][2]) <= 500000
                 /\ \A other \in ResolveStops :
                       (/\ Len(postal) = 5
                        /\ Len(other.postal_code) = 5
                        /\ \A i \in 1..5 : IsDigit(postal[i]) /\ IsDigit(other.postal_code[i])
                        /\ other.postal_code # postal
                        /\ Slice(other.postal_code, 0, 2) = prefix)
                          => get_coordinates_from_postal(other.postal_code).coords
                                 # geo_out.ret
            ELSE geo_out.ret = DefaultCoordinates

\* C25 (amended): when all geocoding attempts fail, the trimmed postal code
\* decides.  Prefix in the table and characters 3 to 5 all digits: the table
\* entry plus (int(characters 3..5) / 10000 - 0.05) degree in latitude and in
\* longitude, hence within 0.05 degree of the entry and different for
\* different 5-digit codes of the prefix.  Prefix in the table and fewer than
\* 5 characters: the table entry itself.  The fixed default is returned when
\* the prefix is not in the table (or the code has fewer than 2 characters),
\* and also when the prefix is in the table but characters 3 to 5 are no
\* integer literal.
C25_RegionalFallback ==
    (geo_out.op = "resolve" /\ geo_out.tier = "regional") =>
        LET postal == Strip(geo_out.stop.postal_code)
            prefix == Slice(postal, 0, 2)
            rest == Slice(postal, 2, 5)
            known == Len(postal) >= 2 /\ prefix \in DOMAIN postal_coordinates
            numbered == Len(postal) >= 5 /\ \A i \in 1..3 : IsDigit(rest[i])
        IN  /\ (known /\ numbered) =>
                 /\ geo_out.ret[1] = postal_coordinates[prefix][1]
                                        + 1000 * DecimalValue(rest) - 500000
                 /\ geo_out.ret[2] = postal_coordinates[prefix][2]
                                        + 1000 * DecimalValue(rest) - 500000
                 /\ Abs(geo_out.ret[1] - postal_coordinates[prefix][1]) <= 500000
                 /\ Abs(geo_out.ret[2] - postal_coordinates[prefix][2]) <= 500000
                 /\ \A other \in ResolveStops :
                       (/\ Len(postal) = 5
                        /\ Len(other.postal_code) = 5
                        /\ \A i \in 1..5 : IsDigit(other.postal_code[i])
                        /\ other.postal_code # postal
                        /\ Slice(other.postal_code, 0, 2) = prefix)
                          => get_coordinates_from_postal(other.postal_code).coords
                                 # geo_out.ret
            /\ (known /\ Len(postal) < 5) => geo_out.ret = postal_coordinates[prefix]
            /\ ~known => geo_out.ret = DefaultCoordinates
            /\ (known /\ Len(postal) >= 5 /\ ~IntParse(rest).ok) =>
                 geo_out.ret = DefaultCoordinates

\* the geocoder timed out for 80999: the fallback is the entry of 80 moved by
\* 0.0499 degree
C25_Witness ==
    /\ geo_out.op = "resolve"
    /\ geo_out.tier = "regional"
    /\ geo_out.caught = "timeout"
    /\ geo_out.stop.postal_code = <<"8", "0", "9", "9", "9">>
    /\ geo_out.ret = <<481351000 + 499000, 115820000 + 499000>>


\* ------------------------------------------------------------------------
\* two_opt pass by pass.  opt_result holds the locals of one two_opt call:
\* input is the route passed in, route is best_route, move is the pair
\* (i, j) of the reversal accepted by the last pass.
\* The stops are numbered in every order of their positions, so the routes
\* 0, 1, .., n-1 and 1, 2, .., n-1, 0 stand for all the routes.
\* ------------------------------------------------------------------------
MaxPasses == 2

InitTwoOpt ==
    /\ \/ \E pos \in {p \in Positions : Cardinality(DOMAIN p) <= 3}, one_way \in BOOLEAN :
               distance_matrix = LineMatrix(pos, one_way)
       \/ \E pos \in ShuffledPositions, one_way \in BOOLEAN :
               distance_matrix = LineMatrix(pos, one_way)
       \/ distance_matrix \in SquareMatrices
    /\ \E route \in {r \in Rotations(MatrixSize(distance_matrix)) : r[1] <= 1},
          max_iterations \in (0..MaxPasses) \cup {MaxIterationsDefault} :
           opt_result = [op |-> "two_opt", algorithm |-> None, pc |-> "while",
                         input |-> route, route |-> route, improved |-> FALSE,
                         iterations |-> 0, max_iterations |-> max_iterations,
                         move |-> <<>>]
    /\ InitOther

\* a while loop that ignores max_iterations
TwoOptPassUncapped ==
    /\ opt_result.pc = "while"
    /\ LET route == opt_result.route
           cand == Improving(route, distance_matrix,
                             calculate_route_distance(route, distance_matrix))
       IN  IF Len(route) <= 3 \/ cand = {}
           THEN opt_result' = [opt_result EXCEPT !.pc = "return"]
           ELSE \E ij \in {a \in cand : \A b \in cand : a = b \/ ScanBefore(a, b)} :
                    opt_result' = [opt_result EXCEPT
                                      !.route = ReverseSegment(route, ij[1], ij[2]),
                                      !.improved = TRUE,
                                      !.iterations = @ + 1,
                                      !.move = ij]
    /\ UNCHANGED <<distance_matrix, distVars, geoVars, multiVars>>

\* one evaluation of the while condition and, if it holds, one scan of the
\* two for loops: the first improving reversal is applied and the scan
\* restarts, a scan without improvement ends the loop
TwoOptPass ==
    /\ opt_result.pc = "while"
    /\ LET route == opt_result.route
           cand == Improving(route, distance_matrix,
                             calculate_route_distance(route, distance_matrix))
       IN  IF Len(route) <= 3 \/ opt_result.iterations >= opt_result.max_iterations
              \/ cand = {}
           THEN opt_result' = [opt_result EXCEPT !.pc = "return"]
           ELSE \E ij \in {a \in cand : \A b \in cand : a = b \/ ScanBefore(a, b)} :
                    opt_result' = [opt_result EXCEPT
                                      !.route = ReverseSegment(route, ij[1], ij[2]),
                                      !.improved = TRUE,
                                      !.iterations = @ + 1,
                                      !.move = ij]
    /\ UNCHANGED <<distance_matrix, distVars, geoVars, multiVars>>

\* the interpreter runs the call to its end
SpecTwoOpt == InitTwoOpt /\ [][TwoOptPass]_vars /\ WF_vars(TwoOptPass)

\* C27: two_opt terminates for every route, matrix and max_iterations >= 0.
\* Every pass that changes the route strictly decreases its open-path
\* distance and counts one iteration below the cap; the loop ends only when
\* the route has at most 3 stops, when max_iterations improvements were
\* accepted, or when no reversal of the scan strictly improves the route.
C27_TwoOptTerminates ==
    /\ <>(opt_result.pc = "return")
    /\ [][/\ opt_result'.iterations <= opt_result'.max_iterations
          /\ opt_result'.route # opt_result.route =>
                /\ calculate_route_distance(opt_result'.route, distance_matrix)
                       < calculate_route_distance(opt_result.route, distance_matrix)
                /\ opt_result.iterations < opt_result.max_iterations
                /\ opt_result'.iterations = opt_result.iterations + 1
                /\ opt_result'.pc = "while"
          /\ opt_result'.pc = "return" =>
                /\ opt_result'.route = opt_result.route
                /\ opt_result'.iterations = opt_result.iterations
                /\ \/ Len(opt_result.route) <= 3
                   \/ opt_result.iterations = opt_result.max_iterations
                   \/ \A i \in 1..(Len(opt_result.route) - 3) :
                        \A j \in (i + 2)..(Len(opt_result.route) - 1) :
                          calculate_route_distance(
                              ReverseSegment(opt_result.route, i, j), distance_matrix)
                            >= calculate_route_distance(opt_result.route, distance_matrix)
       ]_vars

\* the call was ended by the cap while an improving reversal was left
C27_Witness ==
    /\ opt_result.op = "two_opt"
    /\ opt_result.pc = "return"
    /\ opt_result.max_iterations >= 1
    /\ opt_result.iterations = opt_result.max_iterations
    /\ \E i \in 1..(Len(opt_result.route) - 3) :
         \E j \in (i + 2)..(Len(opt_result.route) - 1) :
           calculate_route_distance(
               ReverseSegment(opt_result.route, i, j), distance_matrix)
             < calculate_route_distance(opt_result.route, distance_matrix)

\* C28: two_opt applies the first pair (i, j) in scan order (i from 1 to
\* n-3, j from i+2 to n-1) whose reversal of route[i..j-1] strictly reduces
\* the distance, then rescans; when it returns below the cap no scanned pair
\* improves the returned route; improved is true exactly when the returned
\* route differs from the input; the passes compute what two_opt returns.
C28_FirstImprovementRestart ==
    [][/\ opt_result'.route # opt_result.route =>
            LET r == opt_result.route
                n == Len(opt_result.route)
                i == opt_result'.move[1]
                j == opt_result'.move[2]
                d == calculate_route_distance(opt_result.route, distance_matrix)
            IN  /\ 1 <= i /\ i <= n - 3 /\ i + 2 <= j /\ j <= n - 1
                /\ Len(opt_result'.route) = n
                /\ \A p \in 0..(n - 1) :
                     At(opt_result'.route, p) =
                        IF i <= p /\ p < j THEN At(r, i + j - 1 - p) ELSE At(r, p)
                /\ calculate_route_distance(opt_result'.route, distance_matrix) < d
                /\ \A i2 \in 1..(n - 3) : \A j2 \in (i2 + 2)..(n - 1) :
                     (i2 < i \/ (i2 = i /\ j2 < j)) =>
                        calculate_route_distance(ReverseSegment(r, i2, j2),
                                                 distance_matrix) >= d
                /\ opt_result'.pc = "while"
       /\ opt_result'.pc = "return" =>
            /\ (opt_result'.iterations < opt_result'.max_iterations
                /\ Len(opt_result'.route) > 3) =>
                  \A i \in 1..(Len(opt_result'.route) - 3) :
                    \A j \in (i + 2)..(Len(opt_result'.route) - 1) :
                      calculate_route_distance(
                          ReverseSegment(opt_result'.route, i, j), distance_matrix)
                        >= calculate_route_distance(opt_result'.route, distance_matrix)
            /\ opt_result'.improved <=> (opt_result'.route # opt_result'.input)
            /\ [route |-> opt_result'.route, improved |-> opt_result'.improved,
                iterations |-> opt_result'.iterations]
                 = two_opt(opt_result'.input, distance_matrix,
                           opt_result'.max_iterations)
      ]_vars

\* a call that restarted the scan at least once and returned a local optimum
C28_Witness ==
    /\ opt_result.op = "two_opt"
    /\ opt_result.pc = "return"
    /\ opt_result.iterations >= 2
    /\ opt_result.iterations < opt_result.max_iterations
    /\ opt_result.improved
    /\ opt_result.move[1] > 1

-----------------------------------------------------------------------------
(***************************************************************************)
(* SpecShared: optimizer instances (web requests served at the same time)  *)
(* resolve the address of StopMain against the one GeocodingCache.  Each   *)
(* database operation and each geocoder call is one step, and the          *)
(* instances interleave between the steps.  resolvers.answers is what the  *)
(* geocoder has for the full and for the reduced address, a location or    *)
(* nothing; a single call may also fail.  A finished instance resolves the *)
(* address again or is replaced by the instance of the next request.       *)
(***************************************************************************)
MaxResolvers == 2
MaxRequests == 4

InitShared ==
    /\ \E a1 \in {[kind |-> "found", coords |-> Marienplatz], [kind |-> "empty"]},
          a2 \in {[kind |-> "found", coords |-> Altstadt], [kind |-> "empty"]} :
           resolvers = [answers |-> <<a1, a2>>, requests |-> MaxResolvers,
                        proc |-> [i \in 1..MaxResolvers |->
                                     [pc |-> "lookup_full", session |-> <<>>,
                                      pending |-> <<>>, ret |-> None]]]
    /\ session_cache = <<>>
    /\ geocoding_cache = <<>>
    /\ geo_out = NoCall
    /\ distance_matrix = <<>>
    /\ opt_result = NoCall
    /\ batch = NoCall
    /\ batch_out = NoCall
    /\ ors_client = TRUE
    /\ last_api_call = 0
    /\ api_calls_this_minute = 0
    /\ minute_start = 0
    /\ routing_cache = <<>>
    /\ now = StartTime
    /\ latency = 0
    /\ call_log = {}
    /\ dist_out = NoCall

\* lines 418-427, 445-449: the session cache, then GeocodingCache.get_coordinates
\* of the full or of the reduced address
ResolverLookup(i, read_ok) ==
    LET p == resolvers.proc[i]
        full_address == FullAddress(StopMain.street, StopMain.postal_code, StopMain.city)
        address == IF p.pc = "lookup_full" THEN full_address
                   ELSE FallbackAddress(StopMain.postal_code, StopMain.city)
    IN  /\ p.pc \in {"lookup_full", "lookup_reduced"}
        /\ \E r \in {get_coordinates(geocoding_cache, address, read_ok)} :
             IF p.pc = "lookup_full" /\ SessionLookup(p.session, full_address)
             THEN /\ resolvers' = [resolvers EXCEPT !.proc[i].pc = "done",
                                       !.proc[i].ret = p.session[full_address]]
                  /\ UNCHANGED geocoding_cache
             ELSE IF r.hit
             THEN /\ resolvers' = [resolvers EXCEPT !.proc[i].pc = "done",
                                       !.proc[i].ret = r.coords,
                                       !.proc[i].session = (full_address :> r.coords) @@ @]
                  /\ geocoding_cache' = r.cache
             ELSE /\ resolvers' = [resolvers EXCEPT !.proc[i].pc =
                                       IF p.pc = "lookup_full" THEN "geocode_full"
                                       ELSE "geocode_reduced"]
                  /\ UNCHANGED geocoding_cache
        /\ UNCHANGED <<session_cache, geo_out, batch, batch_out, optVars, distVars>>

\* lines 429-459: self.geocoder.geocode(...) on the full or on the reduced
\* address; failure is the exception of this call, or None
ResolverGeocode(i, failure) ==
    LET p == resolvers.proc[i]
        full_address == FullAddress(StopMain.street, StopMain.postal_code, StopMain.city)
        outcome == IF failure # None THEN [kind |-> failure]
                   ELSE resolvers.answers[IF p.pc = "geocode_full" THEN 1 ELSE 2]
    IN  /\ p.pc \in {"geocode_full", "geocode_reduced"}
        /\ resolvers' =
             IF outcome.kind = "found"
             THEN [resolvers EXCEPT !.proc[i].pc = "store",
                       !.proc[i].ret = outcome.coords,
                       !.proc[i].session = (full_address :> outcome.coords) @@ @,
                       !.proc[i].pending =
                           IF p.pc = "geocode_full" THEN <<full_address>>
                           ELSE <<full_address,
                                  FallbackAddress(StopMain.postal_code, StopMain.city)>>]
             ELSE IF outcome.kind = "empty" /\ p.pc = "geocode_full"
                     /\ StopMain.postal_code # <<>> /\ StopMain.city # <<>>
             THEN [resolvers EXCEPT !.proc[i].pc = "lookup_reduced"]
             ELSE [resolvers EXCEPT !.proc[i].pc = "done",
                       !.proc[i].ret =
                           get_coordinates_from_postal(StopMain.postal_code).coords]
        /\ UNCHANGED <<geoVars, batch, batch_out, optVars, distVars>>

\* lines 435, 455-456: one GeocodingCache.store_coordinates call
ResolverStore(i, write_ok) ==
    LET p == resolvers.proc[i]
    IN  /\ p.pc = "store"
        /\ geocoding_cache' = store_coordinates(geocoding_cache, Head(p.pending),
                                                p.ret, write_ok)
        /\ resolvers' = [resolvers EXCEPT !.proc[i].pending = Tail(p.pending),
                             !.proc[i].pc = IF Len(p.pending) = 1 THEN "done" ELSE "store"]
        /\ UNCHANGED <<session_cache, geo_out, batch, batch_out, optVars, distVars>>

\* the next get_coordinates call of the instance, or RouteOptimizer(...) for
\* the next request: a new instance starts with an empty session cache
NewRequest(i, fresh) ==
    /\ resolvers.proc[i].pc = "done"
    /\ resolvers.requests < MaxRequests
    /\ resolvers' = [resolvers EXCEPT !.requests = @ + 1,
                         !.proc[i].pc = "lookup_full",
                         !.proc[i].ret = None,
                         !.proc[i].session = IF fresh THEN <<>> ELSE @]
    /\ UNCHANGED <<geoVars, batch, batch_out, optVars, distVars>>

NextShared ==
    \/ \E i \in 1..MaxResolvers, read_ok \in BOOLEAN : ResolverLookup(i, read_ok)
    \/ \E i \in 1..MaxResolvers, failure \in GeoFailures \cup {None} :
           ResolverGeocode(i, failure)
    \/ \E i \in 1..MaxResolvers, write_ok \in BOOLEAN : ResolverStore(i, write_ok)
    \/ \E i \in 1..MaxResolvers, fresh \in BOOLEAN : NewRequest(i, fresh)

SpecShared == InitShared /\ [][NextShared]_vars

\* C31: with instances interleaved on the shared GeocodingCache, a written
\* address keeps its entry and its coordinate: every write of an address
\* stores the coordinate already there, and the cache holds the entries of
\* the full and of the reduced address only.
C31_SharedWritesAgree ==
    [][/\ \A h \in DOMAIN geocoding_cache :
            /\ h \in DOMAIN geocoding_cache'
            /\ geocoding_cache'[h].coords = geocoding_cache[h].coords
       /\ DOMAIN geocoding_cache' \subseteq
            {hash_address(FullAddress(StopMain.street, StopMain.postal_code,
                                      StopMain.city)),
             hash_address(FallbackAddress(StopMain.postal_code, StopMain.city))}
      ]_vars

\* two instances missed the address before either stored it, and both wrote it
C31_Witness ==
    /\ resolvers # NoCall
    /\ \A i \in 1..2 : resolvers.proc[i].pc = "done" /\ resolvers.proc[i].pending = <<>>
    /\ resolvers.requests = MaxResolvers
    /\ resolvers.proc[1].ret = resolvers.proc[2].ret
    /\ geocoding_cache # <<>>
    /\ \A h \in DOMAIN geocoding_cache : geocoding_cache[h].success_count = 1
    /\ resolvers.proc[1].ret = Altstadt

\* C37 (as stated): the use count of an existing AddressCache entry never
\* decreases, whatever the instances do.
C37_Original ==
    [][\A h \in DOMAIN geocoding_cache :
          h \in DOMAIN geocoding_cache' =>
             geocoding_cache'[h].success_count >= geocoding_cache[h].success_count]_vars
=============================================================================
